---- MODULE Spec2Model ----
(***************************************************************************)
(* A model of the YAG version-control engine (xhad/yag): the object model  *)
(* (blob / tree / commit encoding and hashing), the tree builder, the      *)
(* file-system object store (objects, refs, HEAD, index) and the           *)
(* repository orchestrator (Init, Add, Commit, CreateBranch, Checkout,     *)
(* Status, Unstage) together with the command layer's CommitCommand.       *)
(*                                                                         *)
(* Representation.  A repository-relative path is the sequence of its      *)
(* components (<<"d","g">> is d/g).  File content is a sequence of bytes.  *)
(* A serialized object "<type> <len>\0<payload>" is the triple             *)
(* <<type, len, payload>>.  SHA-256 is modelled as collision free: the     *)
(* digest of a byte string is <<"sha256", bytes>>, and the empty string    *)
(* (no hash) is <<>>.  Maps (working directory, index, refs, object store) *)
(* are functions whose domain is the set of keys present.                  *)
(***************************************************************************)
EXTENDS Integers, Sequences, FiniteSets, TLC

\* ---------------------------------------------------------------- bounds
MaxTime == 1
MaxCommits == 2

MaxIndexCommits == 1

MaxEntries == 3

MaxRawLen == 5

MaxContentLen == 2

\* Longest argument list handed to AddCommand and RestoreCommand.
MaxArgs == 2

\* ------------------------------------------------------- input universes
Paths == { <<"d", "g">> }

Dirs == { <<>>, <<"d">> }

Contents == { <<>>, <<104, 105>> }

BranchNames == { "master", "dev" }

\* The working-directory files of the staging-area specification: one file
\* in a subdirectory and one in the root.
IndexPaths == { <<"d", "g">>, <<"f">> }

\* The keys of the maps handed to BuildTreeFromPaths directly: d/g, d//g, f,
\* ./f (a component "" stands for a doubled separator) and d/e/g.
TreePaths == { <<"d", "g">>, <<"d", "", "g">>, <<"f">>, <<".", "f">>, <<"d", "e", "g">> }

\* Bytes of the sequences handed to DeserializeObject: NUL, space, '1', 'b'.
RawBytes == { 0, 32, 49, 98 }

\* Bytes of blob contents: NUL and 'h'.
ContentBytes == { 0, 104 }

\* Messages handed to CommitCommand; Repository.Commit is driven with the
\* non-empty ones, as the command layer does.
Messages == { "", "m" }

CommitMessages == { m \in Messages : m # "" }

\* user.Current().Username of the invoking user.
Authors == { "user" }

\* File contents in the runs of two invocations at the same time.
RaceContents == { << 104, 105 >> }

\* Lexicographic order of the entry names that can occur (Go's string <).
NameOrder == << "", "d", "e", "f", "g" >>

NameRank(name) == CHOOSE i \in 1..Len(NameOrder) : NameOrder[i] = name

\* ---------------------------------------------------------- object model
BlobType == "blob"

TreeType == "tree"

CommitType == "commit"

ModeFile == 33188

ModeDir == 16384

\* Faulty variant of DefaultBranch: another name for the initial branch.
DefaultBranchMain == "main"

DefaultBranch == "master"

NoHash == <<>>

EmptyMap == [x \in {} |-> <<>>]

CalculateHash(data) == <<"sha256", data>>

SerializeObject(objType, data) == <<objType, Len(data), data>>

\* Result of DeserializeObject: err = "" on success.
DeserializeObject(raw) ==
    IF Len(raw) # 3
    THEN [err |-> "invalid object format: missing null byte", type |-> "", data |-> <<>>]
    ELSE IF Len(raw[3]) # raw[2]
    THEN [err |-> "corrupt object: size mismatch", type |-> "", data |-> <<>>]
    ELSE [err |-> "", type |-> raw[1], data |-> raw[3]]

\* ---- the same two functions on bytes.  A byte is a number 0..255, a byte
\* string a sequence of bytes.
ObjectTypeBytes(objType) ==
    CASE objType = BlobType -> << 98, 108, 111, 98 >>
      [] objType = TreeType -> << 116, 114, 101, 101 >>
      [] objType = CommitType -> << 99, 111, 109, 109, 105, 116 >>

\* fmt's %d of a length.
RECURSIVE DecimalDigits(_)
DecimalDigits(n) ==
    IF n < 10 THEN << 48 + n >> ELSE DecimalDigits(n \div 10) \o << 48 + (n % 10) >>

\* header = fmt.Sprintf("%s %d\x00", objType, len(data)), then the data.
SerializeObjectBytes(objType, data) ==
    ObjectTypeBytes(objType) \o << 32 >> \o DecimalDigits(Len(data)) \o << 0 >> \o data

\* Faulty variant of NullIndex: the last zero byte.
NullIndexLast(raw) ==
    IF \A i \in 1..Len(raw) : raw[i] # 0 THEN 0
    ELSE CHOOSE i \in 1..Len(raw) : raw[i] = 0 /\ \A j \in (i + 1)..Len(raw) : raw[j] # 0

\* Position of the first zero byte (1-based), 0 when there is none.
NullIndex(raw) ==
    IF \A i \in 1..Len(raw) : raw[i] # 0 THEN 0
    ELSE CHOOSE i \in 1..Len(raw) : raw[i] = 0 /\ \A j \in 1..(i - 1) : raw[j] # 0

IsSpace(b) == b = 32

IsDigit(b) == b >= 48 /\ b <= 57

\* Length of the longest prefix of s whose bytes all satisfy / all fail IsSpace, IsDigit.
RECURSIVE SpacePrefix(_)
SpacePrefix(s) == IF s # <<>> /\ IsSpace(s[1]) THEN 1 + SpacePrefix(Tail(s)) ELSE 0

RECURSIVE TokenPrefix(_)
TokenPrefix(s) == IF s # <<>> /\ ~IsSpace(s[1]) THEN 1 + TokenPrefix(Tail(s)) ELSE 0

RECURSIVE DigitPrefix(_)
DigitPrefix(s) == IF s # <<>> /\ IsDigit(s[1]) THEN 1 + DigitPrefix(Tail(s)) ELSE 0

RECURSIVE DecimalValue(_)
DecimalValue(digits) ==
    IF digits = <<>> THEN 0
    ELSE 10 * DecimalValue(SubSeq(digits, 1, Len(digits) - 1)) + (digits[Len(digits)] - 48)

Drop(s, n) == SubSeq(s, n + 1, Len(s))

\* fmt.Sscanf(header, "%s %d", &objType, &size): leading spaces are skipped,
\* %s takes the bytes up to the next space, the space of the format takes
\* the spaces that follow, %d takes the digits that follow; what comes after
\* the number is not read.  (%d also accepts a sign; RawBytes holds none.)
Sscanf(header) ==
    LET afterLead == Drop(header, SpacePrefix(header))
        tokLen == TokenPrefix(afterLead)
        afterTok == Drop(afterLead, tokLen)
        afterGap == Drop(afterTok, SpacePrefix(afterTok))
        numLen == DigitPrefix(afterGap)
    IN IF tokLen = 0 THEN [err |-> "unexpected EOF", objType |-> <<>>, size |-> 0]
       ELSE IF numLen = 0 THEN [err |-> "expected integer", objType |-> <<>>, size |-> 0]
       ELSE [err |-> "", objType |-> SubSeq(afterLead, 1, tokLen),
             size |-> DecimalValue(SubSeq(afterGap, 1, numLen))]

\* Faulty variant of DeserializeObjectBytes: the size test left out.
DeserializeObjectBytesNoSize(raw) ==
    LET nullIndex == NullIndex(raw) IN
    IF nullIndex = 0
    THEN [err |-> "invalid object format: missing null byte", type |-> <<>>, data |-> <<>>]
    ELSE LET scanned == Sscanf(SubSeq(raw, 1, nullIndex - 1))
         IN IF scanned.err # ""
            THEN [err |-> "invalid header format", type |-> <<>>, data |-> <<>>]
            ELSE [err |-> "", type |-> scanned.objType, data |-> Drop(raw, nullIndex)]

DeserializeObjectBytes(raw) ==
    LET nullIndex == NullIndex(raw) IN
    IF nullIndex = 0
    THEN [err |-> "invalid object format: missing null byte", type |-> <<>>, data |-> <<>>]
    ELSE LET header == SubSeq(raw, 1, nullIndex - 1)
             data == Drop(raw, nullIndex)
             scanned == Sscanf(header)
         IN IF scanned.err # ""
            THEN [err |-> "invalid header format", type |-> <<>>, data |-> <<>>]
            ELSE IF Len(data) # scanned.size
            THEN [err |-> "corrupt object: size mismatch", type |-> <<>>, data |-> <<>>]
            ELSE [err |-> "", type |-> scanned.objType, data |-> data]

NewBlob(content) ==
    [content |-> content, hash |-> CalculateHash(SerializeObject(BlobType, content))]

\* time.Now(): a wall-clock reading that also carries a monotonic reading.
TimeNow(t) == [wall |-> t, mono |-> TRUE]

\* gob encoding of CommitData: time.Time is encoded through MarshalBinary,
\* which drops the monotonic reading; strings are encoded as they are.
GobEncodeCommit(data) == << [data EXCEPT !.Timestamp = [wall |-> data.Timestamp.wall, mono |-> FALSE]] >>

GobDecodeCommit(payload) == payload[1]

CommitSerialize(data) == SerializeObject(CommitType, GobEncodeCommit(data))

NewCommit(treeHash, parentHash, message, author, t) ==
    LET data == [TreeHash |-> treeHash, ParentHash |-> parentHash,
                 Message |-> message, Author |-> author, Timestamp |-> TimeNow(t)]
    IN [data |-> data, hash |-> CalculateHash(CommitSerialize(data))]

DeserializeCommit(payload) ==
    LET commitData == GobDecodeCommit(payload)
    IN [data |-> commitData, hash |-> CalculateHash(CommitSerialize(commitData))]

\* ----------------------------------------------------------------- trees
NewTree == [entries |-> <<>>]

AddEntry(t, name, hash, mode) ==
    [entries |-> Append(t.entries, [Name |-> name, Hash |-> hash, Mode |-> mode])]

AddFile(t, name, hash) == AddEntry(t, name, hash, ModeFile)

AddDirectory(t, name, hash) == AddEntry(t, name, hash, ModeDir)

\* sort.Slice by Name on a short slice is an insertion sort: entries that
\* compare equal keep their insertion order.
InsertByName(sorted, e) ==
    LET k == Cardinality({ i \in 1..Len(sorted) : NameRank(sorted[i].Name) <= NameRank(e.Name) })
    IN SubSeq(sorted, 1, k) \o <<e>> \o SubSeq(sorted, k + 1, Len(sorted))

RECURSIVE SortByName(_)
SortByName(s) ==
    IF Len(s) <= 1 THEN s
    ELSE InsertByName(SortByName(SubSeq(s, 1, Len(s) - 1)), s[Len(s)])

GetEntries(t) == SortByName(t.entries)

TreeSerialize(t) == SerializeObject(TreeType, GetEntries(t))

TreeID(t) == CalculateHash(TreeSerialize(t))

\* The files under a directory in some order.  filepath.Walk visits them in
\* lexical order; addDirectory upserts one distinct key per file, so the
\* index and the object store it leaves do not depend on the order.
RECURSIVE MapKeys(_)
MapKeys(S) ==
    IF S = {} THEN <<>>
    ELSE LET x == CHOOSE x \in S : TRUE IN <<x>> \o MapKeys(S \ {x})

\* filepath.Clean of the directory part of a path, followed by the "." -> ""
\* rewrite: empty components ("a//b") and "." components are dropped.
FilepathClean(dir) == SelectSeq(dir, LAMBDA c : c # "" /\ c # ".")

\* filepath.Split: the directory part (cleaned) and the file part.
SplitDir(path) == FilepathClean(SubSeq(path, 1, Len(path) - 1))

SplitFile(path) == path[Len(path)]

\* filepath.Dir of a dirMap key: "." for "" and for a single component.
DotDir == << "." >>

FilepathDir(dir) == IF Len(dir) <= 1 THEN DotDir ELSE SubSeq(dir, 1, Len(dir) - 1)

FilepathBase(dir) == dir[Len(dir)]

\* The key of a top-level dirMap entry as the string handed to AddDirectory.
DirString(dir) == IF dir = <<>> THEN "" ELSE dir[1]

\* Every path that occurs in some specification, with the file names and
\* the directory keys they split into.
AllPaths == Paths \cup IndexPaths \cup TreePaths

FileNames == { SplitFile(p) : p \in AllPaths }

DirKeys == { SplitDir(p) : p \in AllPaths }

\* The order of a `range` over a Go map is unspecified.  An iteration it
\* gives the order in which the keys of the path map (it.paths), the file
\* names of a directory (it.files) and the keys of dirMap (it.dirs) come;
\* a loop over a map visits those of its keys, in that order.
KeyOrders(S) ==
    { f \in [1..Cardinality(S) -> S] : \A x \in S : \E i \in 1..Cardinality(S) : f[i] = x }

Iterations == [paths : KeyOrders(AllPaths), files : KeyOrders(FileNames), dirs : KeyOrders(DirKeys)]

OneIteration == CHOOSE it \in Iterations : TRUE

Range(S, order) == SelectSeq(order, LAMBDA x : x \in S)

\* The first loop: dirMap[dir][file] = hash for each path, in iteration
\* order; a later path that splits into the same (dir, file) overwrites.
RECURSIVE GroupInto(_, _, _)
GroupInto(dirMap, paths, keys) ==
    IF keys = <<>> THEN dirMap
    ELSE LET path == keys[1]
             dir == SplitDir(path)
             file == SplitFile(path)
             files == IF dir \in DOMAIN dirMap THEN dirMap[dir] ELSE EmptyMap
             updated == [f \in DOMAIN files \cup {file} |->
                            IF f = file THEN paths[path] ELSE files[f]]
         IN GroupInto([d \in DOMAIN dirMap \cup {dir} |-> IF d = dir THEN updated ELSE dirMap[d]],
                      paths, Tail(keys))

GroupByDir(paths, it) == GroupInto(EmptyMap, paths, Range(DOMAIN paths, it.paths))

RECURSIVE AddFiles(_, _, _)
AddFiles(t, files, keys) ==
    IF keys = <<>> THEN t
    ELSE AddFiles(AddFile(t, keys[1], files[keys[1]]), files, Tail(keys))

RECURSIVE ProcessDirs(_, _, _)
RECURSIVE AddSubDirs(_, _, _, _, _)
AddSubDirs(t, dirMap, dir, keys, it) ==
    IF keys = <<>> THEN t
    ELSE LET otherDir == keys[1] IN
         IF otherDir # dir /\ FilepathDir(otherDir) = dir
         THEN AddSubDirs(AddDirectory(t, FilepathBase(otherDir), ProcessDirs(dirMap, otherDir, it)),
                         dirMap, dir, Tail(keys), it)
         ELSE AddSubDirs(t, dirMap, dir, Tail(keys), it)

ProcessDirs(dirMap, dir, it) ==
    LET files == IF dir \in DOMAIN dirMap THEN dirMap[dir] ELSE EmptyMap
        withFiles == AddFiles(NewTree, files, Range(DOMAIN files, it.files))
    IN TreeID(AddSubDirs(withFiles, dirMap, dir, Range(DOMAIN dirMap, it.dirs), it))

RECURSIVE AddRootDirs(_, _, _, _)
AddRootDirs(t, dirMap, keys, it) ==
    IF keys = <<>> THEN t
    ELSE LET dir == keys[1] IN
         IF FilepathDir(dir) = DotDir
         THEN AddRootDirs(AddDirectory(t, DirString(dir), ProcessDirs(dirMap, dir, it)),
                          dirMap, Tail(keys), it)
         ELSE AddRootDirs(t, dirMap, Tail(keys), it)

\* BuildTreeFromPaths under iteration it.
BuildTreeFromPathsIter(paths, it) ==
    LET dirMap == GroupByDir(paths, it)
        withDirs == AddRootDirs(NewTree, dirMap, Range(DOMAIN dirMap, it.dirs), it)
        rootFiles == IF <<>> \in DOMAIN dirMap THEN dirMap[<<>>] ELSE EmptyMap
    IN AddFiles(withDirs, rootFiles, Range(DOMAIN rootFiles, it.files))

\* BuildTreeFromPaths on the index, whose keys are cleaned relative paths:
\* for such maps every iteration yields the same tree hash
\* (BuildTreeCleanPathsDeterministic below), so one iteration stands for all.
BuildTreeFromPaths(paths) == BuildTreeFromPathsIter(paths, OneIteration)

\* The Object interface {Type, ID, Serialize} of the three kinds.
BlobObject(b) == [Type |-> BlobType, ID |-> b.hash, Serialize |-> SerializeObject(BlobType, b.content)]

TreeObject(t) == [Type |-> TreeType, ID |-> TreeID(t), Serialize |-> TreeSerialize(t)]

\* Faulty variant of CommitObject: the commit is filed under its tree's hash.
CommitObjectUnderTree(c) ==
    [Type |-> CommitType, ID |-> c.data.TreeHash, Serialize |-> CommitSerialize(c.data)]

CommitObject(c) == [Type |-> CommitType, ID |-> c.hash, Serialize |-> CommitSerialize(c.data)]

\* ------------------------------------------------------------ the state
VARIABLES
    exists,     \* the metadata directory .yag exists
    wd,         \* working directory: path -> content, for the files present
    objects,    \* .yag/objects: hash -> serialized object
    refs,       \* .yag/refs/heads: branch name -> content of the ref file
    HEAD,       \* content of .yag/HEAD (<<>> while the file is absent)
    index,      \* .yag/index: path -> blob hash
    now,        \* the wall clock
    ret,        \* the last call: operation, argument, error ("" = nil), value
    memTree,    \* a core.Tree a caller is filling through AddEntry
    pathMap,    \* a path -> hash map handed to BuildTreeFromPaths
    roots,      \* the root hashes BuildTreeFromPaths has returned for pathMap
    memBlob,    \* a core.Blob a caller created (<<>> for none, <<b>> for b)
    memRaw,     \* a byte string a caller holds
    memParsed,  \* what DeserializeObject returned for memRaw (<<>> before the call)
    pc,         \* per concurrent invocation: the storage call it makes next
    loc         \* per concurrent invocation: its local variables and its result

\* Two invocations of the program can run at the same time on one repository.
Procs == { 1, 2 }

\* The locals of an invocation: the operation and its path argument, the
\* index entries it read, the hash of the blob or commit it made, the parent
\* hash it read, and its error ("" = nil).
NoLocals ==
    [op |-> "", path |-> <<>>, entries |-> EmptyMap, hash |-> NoHash, parent |-> NoHash,
     err |-> ""]

\* The on-disk repository with its clock, and the values held in memory by
\* callers of the core package.
repoVars == << exists, wd, objects, refs, HEAD, index, now >>

treeVars == << memTree, pathMap, roots >>

codecVars == << memBlob, memRaw, memParsed >>

procVars == << pc, loc >>

memVars == << treeVars, codecVars, procVars >>

vars == << repoVars, ret, memVars >>

Return(op, arg, err, val) == [op |-> op, arg |-> arg, err |-> err, val |-> val]

\* ------------------------------------------------------ the object store
\* Faulty variant of StoreObject: the objects directory is emptied first.
StoreObjectAlone(objs, obj) == [h \in {obj.ID} |-> obj.Serialize]

StoreObject(objs, obj) ==
    [h \in DOMAIN objs \cup {obj.ID} |-> IF h = obj.ID THEN obj.Serialize ELSE objs[h]]

HasObject(objs, hash) == hash \in DOMAIN objs

\* obj is <<>> for nil, <<o>> for an object o.
GetObject(objs, hash) ==
    IF hash \notin DOMAIN objs
    THEN [err |-> "no such file", type |-> "", obj |-> <<>>]
    ELSE LET d == DeserializeObject(objs[hash]) IN
         IF d.err # "" THEN [err |-> d.err, type |-> "", obj |-> <<>>]
         ELSE IF d.type = BlobType THEN [err |-> "", type |-> BlobType, obj |-> << NewBlob(d.data) >>]
         ELSE IF d.type = TreeType
         THEN [err |-> "tree deserialization not implemented", type |-> "", obj |-> <<>>]
         ELSE IF d.type = CommitType
         THEN [err |-> "", type |-> CommitType, obj |-> << DeserializeCommit(d.data) >>]
         ELSE [err |-> "unknown object type", type |-> "", obj |-> <<>>]

UpdateRef(rs, name, commitHash) ==
    [n \in DOMAIN rs \cup {name} |-> IF n = name THEN commitHash ELSE rs[n]]

\* Faulty variant of GetRef: a missing ref file is read as an empty ref, without error.
GetRefLenient(rs, name) ==
    IF name \in DOMAIN rs THEN [err |-> "", hash |-> rs[name]] ELSE [err |-> "", hash |-> NoHash]

GetRef(rs, name) ==
    IF name \in DOMAIN rs THEN [err |-> "", hash |-> rs[name]]
    ELSE [err |-> "reference not found", hash |-> NoHash]

ListRefs(rs) == rs

\* "ref: refs/heads/<branch>" is <<"ref: ", "refs/heads/", branch>>; a detached
\* HEAD holds a raw commit hash.
SymbolicRef(branch) == << "ref: ", "refs/heads/", branch >>

HasRefPrefix(headContent) == Len(headContent) >= 1 /\ headContent[1] = "ref: "

GetHead(head) ==
    IF head = <<>> THEN [err |-> "no such file", ref |-> ""]
    ELSE IF HasRefPrefix(head) THEN [err |-> "", ref |-> head[3]]
    ELSE [err |-> "", ref |-> ""]

\* Faulty variant of SetHead: the branch name is written without the prefix.
SetHeadBare(ref) == << ref >>

SetHead(ref) == SymbolicRef(ref)

\* Faulty variant of GetHeadCommit: a missing branch file is reported as an error.
GetHeadCommitStrict(head, rs, objs) ==
    IF head = <<>> \/ (HasRefPrefix(head) /\ head[3] \notin DOMAIN rs)
    THEN [err |-> "no such file", commit |-> <<>>]
    ELSE LET commitHash == IF HasRefPrefix(head) THEN rs[head[3]] ELSE head
             got == GetObject(objs, commitHash)
         IN IF got.err # "" THEN [err |-> got.err, commit |-> <<>>]
            ELSE IF got.type # CommitType THEN [err |-> "object is not a commit", commit |-> <<>>]
            ELSE [err |-> "", commit |-> got.obj]

\* commit is <<>> for nil, <<c>> for a commit c.
GetHeadCommit(head, rs, objs) ==
    IF head = <<>> THEN [err |-> "no such file", commit |-> <<>>]
    ELSE IF HasRefPrefix(head) /\ head[3] \notin DOMAIN rs
    THEN [err |-> "", commit |-> <<>>]
    ELSE LET commitHash == IF HasRefPrefix(head) THEN rs[head[3]] ELSE head
             got == GetObject(objs, commitHash)
         IN IF got.err # "" THEN [err |-> got.err, commit |-> <<>>]
            ELSE IF got.type # CommitType THEN [err |-> "object is not a commit", commit |-> <<>>]
            ELSE [err |-> "", commit |-> got.obj]

GetIndexEntries(idx) == idx

\* Faulty variant of UpdateIndex: the entries read are not carried over.
UpdateIndexReplace(idx, path, hash) == [p \in {path} |-> hash]

UpdateIndex(idx, path, hash) ==
    LET entries == GetIndexEntries(idx)
    IN [p \in DOMAIN entries \cup {path} |-> IF p = path THEN hash ELSE entries[p]]

\* Faulty variant of UpdateIndexEntries: an empty index is written.
UpdateIndexEntriesNone(entries) == EmptyMap

UpdateIndexEntries(entries) == entries

\* Faulty variant of ClearIndex: the index file is left as it is.
ClearIndexSkipped == index

ClearIndex == EmptyMap

\* ------------------------------------------------ the repository: helpers
IsDir(w, p) == p = <<>> \/ \E q \in DOMAIN w : Len(q) > Len(p) /\ SubSeq(q, 1, Len(p)) = p

FilesUnder(w, dir) == { q \in DOMAIN w : Len(q) > Len(dir) /\ SubSeq(q, 1, Len(dir)) = dir }

\* Faulty variant of addFile: the index is updated without the blob being stored.
addFileNoStore(st, w, path) ==
    [objects |-> st.objects, index |-> UpdateIndex(st.index, path, NewBlob(w[path]).hash)]

\* addFile on the pair (object store, index): store the blob, then upsert.
addFile(st, w, path) ==
    LET blob == NewBlob(w[path])
    IN [objects |-> StoreObject(st.objects, BlobObject(blob)),
        index |-> UpdateIndex(st.index, path, blob.hash)]

RECURSIVE addDirectory(_, _, _)
addDirectory(st, w, files) ==
    IF files = <<>> THEN st
    ELSE addDirectory(addFile(st, w, files[1]), w, Tail(files))

NumCommits(objs) == Cardinality({ h \in DOMAIN objs : objs[h][1] = CommitType })

\* Faulty variants of ParentOf: the error test inverted; the wrong field of the commit.
ParentOfInverted(hc) == IF hc.err # "" /\ hc.commit # <<>> THEN hc.commit[1].hash ELSE NoHash

ParentOfTreeHash(hc) ==
    IF hc.err = "" /\ hc.commit # <<>> THEN hc.commit[1].data.TreeHash ELSE NoHash

\* The parent hash Commit takes from GetHeadCommit's answer.
ParentOf(hc) == IF hc.err = "" /\ hc.commit # <<>> THEN hc.commit[1].hash ELSE NoHash

\* Faulty variant of NothingToCommit: the emptiness test left out.
NothingToCommitNever(stagedFiles) == FALSE

\* Commit's "nothing to commit" test on the index it read.
NothingToCommit(stagedFiles) == Cardinality(DOMAIN stagedFiles) = 0

\* ListBranches: the names ListRefs yields, as a set (the slice is filled
\* in map-iteration order).
ListBranches(rs) == DOMAIN ListRefs(rs)

GetCurrentBranch(head) == GetHead(head)

\* Faulty variant of StatusOf: a staged file is never compared with the index.
StatusOfUncompared(w, idx) ==
    [Staged |-> DOMAIN idx, Unstaged |-> {}, Untracked |-> { f \in DOMAIN w : f \notin DOMAIN idx }]

\* Status as a function of the working directory and the index.
StatusOf(w, idx) ==
    LET indexEntries == GetIndexEntries(idx)
        workspaceFiles == DOMAIN w
    IN [Staged |-> DOMAIN indexEntries,
        Unstaged |-> { f \in workspaceFiles :
                         f \in DOMAIN indexEntries /\ NewBlob(w[f]).hash # indexEntries[f] },
        Untracked |-> { f \in workspaceFiles : f \notin DOMAIN indexEntries }]

\* ------------------------------------------------------------ operations
Init ==
    /\ exists = FALSE
    /\ wd = EmptyMap
    /\ objects = EmptyMap
    /\ refs = EmptyMap
    /\ HEAD = <<>>
    /\ index = EmptyMap
    /\ now = 0
    /\ ret = Return("", <<>>, "", <<>>)
    /\ memTree = NewTree
    /\ pathMap = EmptyMap
    /\ roots = {}
    /\ memBlob = <<>>
    /\ memRaw = <<>>
    /\ memParsed = <<>>
    /\ pc = [p \in Procs |-> "idle"]
    /\ loc = [p \in Procs |-> NoLocals]

\* The user edits the working directory between invocations.
WriteFile(p, c) ==
    /\ wd' = [q \in DOMAIN wd \cup {p} |-> IF q = p THEN c ELSE wd[q]]
    /\ ret' = Return("WriteFile", <<p>>, "", <<>>)
    /\ UNCHANGED << exists, objects, refs, HEAD, index, now, memVars >>

RemoveFile(p) ==
    /\ p \in DOMAIN wd
    /\ wd' = [q \in DOMAIN wd \ {p} |-> wd[q]]
    /\ ret' = Return("RemoveFile", <<p>>, "", <<>>)
    /\ UNCHANGED << exists, objects, refs, HEAD, index, now, memVars >>

\* Faulty variant of RepoInit: the metadata directory is created afresh.
RepoInitFresh ==
    /\ exists' = TRUE
    /\ HEAD' = SymbolicRef(DefaultBranch)
    /\ index' = EmptyMap
    /\ objects' = EmptyMap
    /\ refs' = EmptyMap
    /\ ret' = Return("Init", <<>>, "", <<>>)
    /\ UNCHANGED << wd, now, memVars >>

\* repository.Init -> FileSystemStorage.Initialize
RepoInit ==
    /\ exists' = TRUE
    /\ HEAD' = SymbolicRef(DefaultBranch)
    /\ index' = EmptyMap
    /\ ret' = Return("Init", <<>>, "", <<>>)
    /\ UNCHANGED << wd, objects, refs, now, memVars >>

Add(p) ==
    /\ exists
    /\ IF p \notin DOMAIN wd /\ ~IsDir(wd, p)
       THEN /\ ret' = Return("Add", <<p>>, "no such file or directory", <<>>)
            /\ UNCHANGED << objects, index >>
       ELSE LET st0 == [objects |-> objects, index |-> index]
                st1 == IF p \in DOMAIN wd THEN addFile(st0, wd, p)
                       ELSE addDirectory(st0, wd, MapKeys(FilesUnder(wd, p)))
            IN /\ objects' = st1.objects
               /\ index' = st1.index
               /\ ret' = Return("Add", <<p>>, "", <<>>)
    /\ UNCHANGED << exists, wd, refs, HEAD, now, memVars >>

\* Faulty variant of Unstage: the membership test left out.
UnstageUnchecked(p) ==
    /\ exists
    /\ LET indexEntries == GetIndexEntries(index) IN
       /\ index' = UpdateIndexEntries([q \in DOMAIN indexEntries \ {p} |-> indexEntries[q]])
       /\ ret' = Return("Unstage", <<p>>, "", <<>>)
    /\ UNCHANGED << exists, wd, objects, refs, HEAD, now, memVars >>

Unstage(p) ==
    /\ exists
    /\ LET indexEntries == GetIndexEntries(index) IN
       IF p \notin DOMAIN indexEntries
       THEN /\ ret' = Return("Unstage", <<p>>, "pathspec did not match any file in the index", <<>>)
            /\ UNCHANGED index
       ELSE /\ index' = UpdateIndexEntries([q \in DOMAIN indexEntries \ {p} |-> indexEntries[q]])
            /\ ret' = Return("Unstage", <<p>>, "", <<>>)
    /\ UNCHANGED << exists, wd, objects, refs, HEAD, now, memVars >>

\* Repository.Commit, reported under the name op of the entry point that ran
\* it.  t is the clock reading NewCommit takes, author the name user.Current
\* yields ("unknown" when the lookup fails).
CommitAs(op, message, author, t) ==
    LET stagedFiles == GetIndexEntries(index) IN
    IF NothingToCommit(stagedFiles)
    THEN /\ ret' = Return(op, <<message>>, "nothing to commit, working tree clean", <<>>)
         /\ UNCHANGED << objects, refs, index, now >>
    ELSE LET tree == BuildTreeFromPaths(stagedFiles)
             objs1 == StoreObject(objects, TreeObject(tree))
             parentHash == ParentOf(GetHeadCommit(HEAD, refs, objs1))
             commit == NewCommit(TreeID(tree), parentHash, message, author, t)
             objs2 == StoreObject(objs1, CommitObject(commit))
             head == GetHead(HEAD)
         IN /\ NumCommits(objects) < MaxCommits
            /\ now' = t
            /\ objects' = objs2
            /\ IF head.err # ""
               THEN /\ ret' = Return(op, <<message>>, head.err, <<>>)
                    /\ UNCHANGED << refs, index >>
               ELSE /\ refs' = UpdateRef(refs, head.ref, commit.hash)
                    /\ index' = ClearIndex
                    /\ ret' = Return(op, <<message>>, "", << commit.hash >>)

\* The storage calls of Commit, in the order it makes them; any of them can
\* return an I/O error (the file could not be opened), leaving its file as
\* it was.
FailPoints == << "GetIndexEntries", "StoreTree", "StoreCommit", "GetHead", "UpdateRef", "ClearIndex" >>

ErrIO == "input/output error"

\* Repository.Commit when the storage call FailPoints[k] returns an error.
CommitFailingAt(k, message, author, t) ==
    LET stagedFiles == GetIndexEntries(index)
        tree == BuildTreeFromPaths(stagedFiles)
        objs1 == StoreObject(objects, TreeObject(tree))
        parentHash == ParentOf(GetHeadCommit(HEAD, refs, objs1))
        commit == NewCommit(TreeID(tree), parentHash, message, author, t)
        objs2 == StoreObject(objs1, CommitObject(commit))
        head == GetHead(HEAD)
    IN IF FailPoints[k] = "GetIndexEntries"
       THEN /\ ret' = Return("Commit", <<message>>, ErrIO, <<>>)
            /\ UNCHANGED << objects, refs, index, now >>
       ELSE IF NothingToCommit(stagedFiles)
       THEN /\ ret' = Return("Commit", <<message>>, "nothing to commit, working tree clean", <<>>)
            /\ UNCHANGED << objects, refs, index, now >>
       ELSE IF FailPoints[k] = "StoreTree"
       THEN /\ ret' = Return("Commit", <<message>>, ErrIO, <<>>)
            /\ UNCHANGED << objects, refs, index, now >>
       ELSE IF FailPoints[k] = "StoreCommit"
       THEN /\ ret' = Return("Commit", <<message>>, ErrIO, <<>>)
            /\ objects' = objs1
            /\ now' = t
            /\ UNCHANGED << refs, index >>
       ELSE IF FailPoints[k] = "GetHead" \/ head.err # ""
       THEN /\ ret' = Return("Commit", <<message>>, IF head.err # "" THEN head.err ELSE ErrIO, <<>>)
            /\ objects' = objs2
            /\ now' = t
            /\ UNCHANGED << refs, index >>
       ELSE IF FailPoints[k] = "UpdateRef"
       THEN /\ ret' = Return("Commit", <<message>>, ErrIO, <<>>)
            /\ objects' = objs2
            /\ now' = t
            /\ UNCHANGED << refs, index >>
       ELSE /\ ret' = Return("Commit", <<message>>, ErrIO, <<>>)
            /\ objects' = objs2
            /\ now' = t
            /\ refs' = UpdateRef(refs, head.ref, commit.hash)
            /\ UNCHANGED index

ClockReadings == { t \in now..(now + 1) : t <= MaxTime }

\* Faulty variant of Commit: an empty message is rejected.
CommitChecked(message) ==
    /\ exists
    /\ IF message = ""
       THEN /\ ret' = Return("Commit", <<message>>, "aborting commit due to empty commit message", <<>>)
            /\ UNCHANGED << objects, refs, index, now >>
       ELSE \E author \in Authors, t \in ClockReadings : CommitAs("Commit", message, author, t)
    /\ UNCHANGED << exists, wd, HEAD, memVars >>

Commit(message) ==
    /\ exists
    /\ \E author \in Authors, t \in ClockReadings : CommitAs("Commit", message, author, t)
    /\ UNCHANGED << exists, wd, HEAD, memVars >>

CommitInterrupted(k, message) ==
    /\ exists
    /\ \E author \in Authors, t \in ClockReadings : CommitFailingAt(k, message, author, t)
    /\ UNCHANGED << exists, wd, HEAD, memVars >>

\* Faulty variant of CommitCommand: the empty-message test left out.
CommitCommandUnchecked(message) ==
    /\ IF ~exists
       THEN /\ ret' = Return("CommitCommand", <<message>>, "not a yag repository", <<>>)
            /\ UNCHANGED << objects, refs, index, now >>
       ELSE \E author \in Authors, t \in ClockReadings : CommitAs("CommitCommand", message, author, t)
    /\ UNCHANGED << exists, wd, HEAD, memVars >>

CommitCommand(message) ==
    /\ IF message = ""
       THEN /\ ret' = Return("CommitCommand", <<message>>, "aborting commit due to empty commit message", <<>>)
            /\ UNCHANGED << objects, refs, index, now >>
       ELSE IF ~exists
       THEN /\ ret' = Return("CommitCommand", <<message>>, "not a yag repository", <<>>)
            /\ UNCHANGED << objects, refs, index, now >>
       ELSE \E author \in Authors, t \in ClockReadings : CommitAs("CommitCommand", message, author, t)
    /\ UNCHANGED << exists, wd, HEAD, memVars >>

\* Faulty variant of CreateBranch: the new branch is also checked out.
CreateBranchAndSwitch(name) ==
    /\ exists
    /\ LET hc == GetHeadCommit(HEAD, refs, objects) IN
       IF hc.err # "" \/ hc.commit = <<>>
       THEN /\ ret' = Return("CreateBranch", <<name>>, "cannot create branch: you must create at least one commit first", <<>>)
            /\ UNCHANGED << refs, HEAD >>
       ELSE /\ refs' = UpdateRef(refs, name, hc.commit[1].hash)
            /\ HEAD' = SetHead(name)
            /\ ret' = Return("CreateBranch", <<name>>, "", <<>>)
    /\ UNCHANGED << exists, wd, objects, index, now, memVars >>

CreateBranch(name) ==
    /\ exists
    /\ LET hc == GetHeadCommit(HEAD, refs, objects) IN
       IF hc.err # ""
       THEN /\ ret' = Return("CreateBranch", <<name>>, hc.err, <<>>)
            /\ UNCHANGED refs
       ELSE IF hc.commit = <<>>
       THEN /\ ret' = Return("CreateBranch", <<name>>, "cannot create branch: you must create at least one commit first", <<>>)
            /\ UNCHANGED refs
       ELSE /\ refs' = UpdateRef(refs, name, hc.commit[1].hash)
            /\ ret' = Return("CreateBranch", <<name>>, "", <<>>)
    /\ UNCHANGED << exists, wd, objects, HEAD, index, now, memVars >>

\* Faulty variant of Checkout: the existence test left out.
CheckoutUnchecked(branchName) ==
    /\ exists
    /\ HEAD' = SetHead(branchName)
    /\ ret' = Return("Checkout", <<branchName>>, "", <<>>)
    /\ UNCHANGED << exists, wd, objects, refs, index, now, memVars >>

Checkout(branchName) ==
    /\ exists
    /\ IF GetRef(refs, branchName).err # ""
       THEN /\ ret' = Return("Checkout", <<branchName>>, "branch does not exist", <<>>)
            /\ UNCHANGED HEAD
       ELSE /\ HEAD' = SetHead(branchName)
            /\ ret' = Return("Checkout", <<branchName>>, "", <<>>)
    /\ UNCHANGED << exists, wd, objects, refs, index, now, memVars >>

\* AddCommand's loop over its arguments: Add each in turn on the pair
\* (object store, index), stopping at the first that fails.
RECURSIVE AddEach(_, _, _)
AddEach(st, w, args) ==
    IF args = <<>> THEN [err |-> "", st |-> st]
    ELSE IF args[1] \notin DOMAIN w /\ ~IsDir(w, args[1])
    THEN [err |-> "no such file or directory", st |-> st]
    ELSE AddEach(IF args[1] \in DOMAIN w THEN addFile(st, w, args[1])
                 ELSE addDirectory(st, w, MapKeys(FilesUnder(w, args[1]))),
                 w, Tail(args))

AddCommand(args) ==
    /\ IF Len(args) = 0
       THEN /\ ret' = Return("AddCommand", << args >>, "nothing specified, nothing added", <<>>)
            /\ UNCHANGED << objects, index >>
       ELSE IF ~exists
       THEN /\ ret' = Return("AddCommand", << args >>, "not a yag repository", <<>>)
            /\ UNCHANGED << objects, index >>
       ELSE LET done == AddEach([objects |-> objects, index |-> index], wd, args)
            IN /\ objects' = done.st.objects
               /\ index' = done.st.index
               /\ ret' = Return("AddCommand", << args >>, done.err, <<>>)
    /\ UNCHANGED << exists, wd, refs, HEAD, now, memVars >>

\* Faulty variant of UnstageEach: a path that fails is passed over and the
\* loop goes on with the paths after it.
RECURSIVE UnstageEachSkipping(_, _)
UnstageEachSkipping(idx, args) ==
    IF args = <<>> THEN [err |-> "", index |-> idx]
    ELSE LET indexEntries == GetIndexEntries(idx) IN
         IF args[1] \notin DOMAIN indexEntries
         THEN [err |-> "pathspec did not match any file in the index",
               index |-> UnstageEachSkipping(idx, Tail(args)).index]
         ELSE UnstageEachSkipping(UpdateIndexEntries([q \in DOMAIN indexEntries \ {args[1]} |-> indexEntries[q]]),
                                  Tail(args))

\* RestoreCommand's loop over its arguments with --staged: Unstage each in
\* turn on the index idx, stopping at the first that fails.
RECURSIVE UnstageEach(_, _)
UnstageEach(idx, args) ==
    IF args = <<>> THEN [err |-> "", index |-> idx]
    ELSE LET indexEntries == GetIndexEntries(idx) IN
         IF args[1] \notin DOMAIN indexEntries
         THEN [err |-> "pathspec did not match any file in the index", index |-> idx]
         ELSE UnstageEach(UpdateIndexEntries([q \in DOMAIN indexEntries \ {args[1]} |-> indexEntries[q]]),
                          Tail(args))

RestoreCommand(args, staged) ==
    /\ IF Len(args) = 0
       THEN /\ ret' = Return("RestoreCommand", << args, staged >>, "nothing specified, nothing restored", <<>>)
            /\ UNCHANGED index
       ELSE IF ~exists
       THEN /\ ret' = Return("RestoreCommand", << args, staged >>, "not a yag repository", <<>>)
            /\ UNCHANGED index
       ELSE IF staged
       THEN LET done == UnstageEach(index, args)
            IN /\ index' = done.index
               /\ ret' = Return("RestoreCommand", << args, staged >>, done.err, <<>>)
       ELSE /\ ret' = Return("RestoreCommand", << args, staged >>,
                             "restoring working tree changes is not yet implemented", <<>>)
            /\ UNCHANGED index
    /\ UNCHANGED << exists, wd, objects, refs, HEAD, now, memVars >>

\* Faulty variant of Status: the blob of every staged file it hashes is stored.
StatusStoring ==
    /\ exists
    /\ ret' = Return("Status", <<>>, "", << StatusOf(wd, index) >>)
    /\ objects' = addDirectory([objects |-> objects, index |-> index], wd,
                               MapKeys(DOMAIN wd \cap DOMAIN index)).objects
    /\ UNCHANGED << exists, wd, refs, HEAD, index, now, memVars >>

Status ==
    /\ exists
    /\ ret' = Return("Status", <<>>, "", << StatusOf(wd, index) >>)
    /\ UNCHANGED << exists, wd, objects, refs, HEAD, index, now, memVars >>

\* The queries, as calls on an opened repository.
ListBranchesCall ==
    /\ exists
    /\ ret' = Return("ListBranches", <<>>, "", << ListBranches(refs) >>)
    /\ UNCHANGED << repoVars, memVars >>

GetCurrentBranchCall ==
    /\ exists
    /\ ret' = Return("GetCurrentBranch", <<>>, GetCurrentBranch(HEAD).err, << GetCurrentBranch(HEAD).ref >>)
    /\ UNCHANGED << repoVars, memVars >>

GetHeadCommitCall ==
    /\ exists
    /\ ret' = Return("GetHeadCommit", <<>>, GetHeadCommit(HEAD, refs, objects).err,
                     GetHeadCommit(HEAD, refs, objects).commit)
    /\ UNCHANGED << repoVars, memVars >>

Next ==
    \/ \E p \in Paths, c \in Contents : WriteFile(p, c)
    \/ \E p \in Paths : RemoveFile(p)
    \/ RepoInit
    \/ \E p \in Paths \cup Dirs : Add(p)
    \/ \E p \in Paths : Unstage(p)
    \/ \E m \in CommitMessages : Commit(m)
    \/ \E m \in Messages : CommitCommand(m)
    \/ \E n \in BranchNames : CreateBranch(n)
    \/ \E n \in BranchNames : Checkout(n)
    \/ Status

Spec == Init /\ [][Next]_vars

\* The staging area over two files: the working directory is edited, files
\* and directories are added and unstaged, the index is committed, and the
\* status is asked for.
NextIndex ==
    \/ \E p \in IndexPaths, c \in Contents : WriteFile(p, c)
    \/ \E p \in IndexPaths : RemoveFile(p)
    \/ RepoInit
    \/ \E p \in IndexPaths \cup Dirs : Add(p)
    \/ \E p \in IndexPaths : Unstage(p)
    \/ NumCommits(objects) < MaxIndexCommits /\ \E m \in CommitMessages : Commit(m)
    \/ Status

SpecIndex == Init /\ [][NextIndex]_vars

\* A caller of the core package fills a tree entry by entry.
EntryNames == { "d", "g" }

EntryHashes == { NewBlob(c).hash : c \in Contents }

EntryModes == { ModeFile, ModeDir }

InitTree ==
    /\ Init
    /\ memTree = NewTree

TreeAddEntry(name, hash, mode) ==
    /\ Len(memTree.entries) < MaxEntries
    /\ memTree' = AddEntry(memTree, name, hash, mode)
    /\ UNCHANGED << repoVars, ret, pathMap, roots, codecVars, procVars >>

NextTree ==
    \E name \in EntryNames, hash \in EntryHashes, mode \in EntryModes :
        TreeAddEntry(name, hash, mode)

SpecTree == InitTree /\ [][NextTree]_vars

\* A caller of the core package invokes BuildTreeFromPaths on one map again
\* and again; each invocation iterates its maps in an order of its own.
PathMaps == UNION { [S -> EntryHashes] : S \in SUBSET TreePaths }

InitBuild ==
    /\ exists = FALSE
    /\ wd = EmptyMap
    /\ objects = EmptyMap
    /\ refs = EmptyMap
    /\ HEAD = <<>>
    /\ index = EmptyMap
    /\ now = 0
    /\ ret = Return("", <<>>, "", <<>>)
    /\ memTree = NewTree
    /\ pathMap \in PathMaps
    /\ roots = {}
    /\ memBlob = <<>>
    /\ memRaw = <<>>
    /\ memParsed = <<>>
    /\ pc = [p \in Procs |-> "idle"]
    /\ loc = [p \in Procs |-> NoLocals]

Build(it) ==
    /\ roots' = roots \cup { TreeID(BuildTreeFromPathsIter(pathMap, it)) }
    /\ UNCHANGED << repoVars, ret, memTree, pathMap, codecVars, procVars >>

NextBuild == \E it \in Iterations : Build(it)

SpecBuild == InitBuild /\ [][NextBuild]_vars

\* A caller of the core package holds a byte string, creates blobs and
\* serializes them, and hands the byte string to DeserializeObject.
BytesUpTo(alphabet, n) == UNION { [1..k -> alphabet] : k \in 0..n }

TenBytes == [i \in 1..10 |-> IF i = 4 THEN 0 ELSE 104]

BlobContents == BytesUpTo(ContentBytes, MaxContentLen) \cup { TenBytes }

InitCodec ==
    /\ exists = FALSE
    /\ wd = EmptyMap
    /\ objects = EmptyMap
    /\ refs = EmptyMap
    /\ HEAD = <<>>
    /\ index = EmptyMap
    /\ now = 0
    /\ ret = Return("", <<>>, "", <<>>)
    /\ memTree = NewTree
    /\ pathMap = EmptyMap
    /\ roots = {}
    /\ memBlob = <<>>
    /\ memRaw \in BytesUpTo(RawBytes, MaxRawLen)
    /\ memParsed = <<>>
    /\ pc = [p \in Procs |-> "idle"]
    /\ loc = [p \in Procs |-> NoLocals]

\* blob := NewBlob(content); raw, _ := blob.Serialize()
BlobSerialize(content) ==
    /\ memBlob' = << NewBlob(content) >>
    /\ memRaw' = SerializeObjectBytes(BlobType, content)
    /\ memParsed' = <<>>
    /\ UNCHANGED << repoVars, ret, treeVars, procVars >>

Deserialize ==
    /\ memParsed = <<>>
    /\ memParsed' = << DeserializeObjectBytes(memRaw) >>
    /\ UNCHANGED << repoVars, ret, treeVars, memBlob, memRaw, procVars >>

NextCodec ==
    \/ \E content \in BlobContents : BlobSerialize(content)
    \/ Deserialize

SpecCodec == InitCodec /\ [][NextCodec]_vars

\* One file is edited, added, committed and restored.
RestoreArgs == { <<>> } \cup { << p >> : p \in Paths }

NextRestore ==
    \/ \E p \in Paths, c \in Contents : WriteFile(p, c)
    \/ RepoInit
    \/ \E p \in Paths : Add(p)
    \/ NumCommits(objects) < MaxIndexCommits /\ \E m \in CommitMessages : Commit(m)
    \/ \E args \in RestoreArgs, staged \in BOOLEAN : RestoreCommand(args, staged)

SpecRestore == Init /\ [][NextRestore]_vars

\* One file is edited, added and committed, and branches are created, while
\* storage calls can fail.
NextFault ==
    \/ \E p \in Paths, c \in Contents : WriteFile(p, c)
    \/ RepoInit
    \/ \E p \in Paths : Add(p)
    \/ \E name \in BranchNames : CreateBranch(name)
    \/ NumCommits(objects) < MaxIndexCommits /\ \E m \in CommitMessages : Commit(m)
    \/ NumCommits(objects) < MaxIndexCommits /\
           \E k \in 1..Len(FailPoints), m \in CommitMessages : CommitInterrupted(k, m)

SpecFault == Init /\ [][NextFault]_vars

\* The object file of the commit that HEAD's branch names is lost (deleted,
\* or unreadable): os.ReadFile in GetObject fails for it from now on.
LoseHeadCommit ==
    /\ exists
    /\ HasRefPrefix(HEAD)
    /\ HEAD[3] \in DOMAIN refs
    /\ HasObject(objects, refs[HEAD[3]])
    /\ objects' = [h \in DOMAIN objects \ { refs[HEAD[3]] } |-> objects[h]]
    /\ UNCHANGED << exists, wd, refs, HEAD, index, now, ret, memVars >>

\* One file is edited, added and committed in a repository whose object
\* files can get lost.
NextDamage ==
    \/ \E p \in Paths, c \in Contents : WriteFile(p, c)
    \/ RepoInit
    \/ \E p \in Paths : Add(p)
    \/ \E m \in CommitMessages : Commit(m)
    \/ LoseHeadCommit

SpecDamage == Init /\ [][NextDamage]_vars

\* A caller of the repository package hands Repository.Commit any message,
\* the empty one included; the command layer tests the message first.
NextMessage ==
    \/ \E p \in Paths, c \in Contents : WriteFile(p, c)
    \/ RepoInit
    \/ \E p \in Paths : Add(p)
    \/ \E m \in Messages : Commit(m)
    \/ \E m \in Messages : CommitCommand(m)

SpecMessage == Init /\ [][NextMessage]_vars

\* Two files are added, unstaged and committed, one commit after another.
NextHistory ==
    \/ \E p \in IndexPaths, c \in RaceContents : WriteFile(p, c)
    \/ RepoInit
    \/ \E p \in IndexPaths : Add(p)
    \/ \E p \in IndexPaths : Unstage(p)
    \/ \E m \in CommitMessages : Commit(m)

SpecHistory == Init /\ [][NextHistory]_vars

\* Two files are written and removed, and the add and restore commands are
\* given lists of up to MaxArgs paths, files and directories, existing or not.
ArgPaths == IndexPaths \cup Dirs

ArgLists == UNION { [1..k -> ArgPaths] : k \in 0..MaxArgs }

NextArgs ==
    \/ \E p \in IndexPaths, c \in RaceContents : WriteFile(p, c)
    \/ \E p \in IndexPaths : RemoveFile(p)
    \/ RepoInit
    \/ \E args \in ArgLists : AddCommand(args)
    \/ \E args \in ArgLists, staged \in BOOLEAN : RestoreCommand(args, staged)

SpecArgs == Init /\ [][NextArgs]_vars

\* One file is edited, added and committed and branches are made and checked
\* out, with the queries called in between.
NextQuery ==
    \/ \E p \in Paths, c \in Contents : WriteFile(p, c)
    \/ RepoInit
    \/ \E p \in Paths : Add(p)
    \/ NumCommits(objects) < MaxIndexCommits /\ \E m \in CommitMessages : Commit(m)
    \/ \E n \in BranchNames : CreateBranch(n)
    \/ \E n \in BranchNames : Checkout(n)
    \/ Status
    \/ ListBranchesCall
    \/ GetCurrentBranchCall
    \/ GetHeadCommitCall

SpecQuery == Init /\ [][NextQuery]_vars

\* ------------------------------------------ two invocations at the same time
\* Nothing locks the repository: an operation is a sequence of storage calls,
\* each of which reads or writes one file, and the calls of two invocations
\* interleave.  An invocation runs one command and exits: pc[p] names the
\* call invocation p makes next, "idle" before its command and "done" after
\* the command returned.
Goto(p, label, locals) ==
    /\ pc' = [pc EXCEPT ![p] = label]
    /\ loc' = [loc EXCEPT ![p] = locals]

CanBegin(p) == exists /\ pc[p] = "idle"

\* Add(path) up to UpdateIndex: os.Stat, NewBlobFromFile, StoreObject.
AddStore(p, path) ==
    /\ CanBegin(p)
    /\ LET l == [NoLocals EXCEPT !.op = "Add", !.path = path] IN
       IF path \notin DOMAIN wd
       THEN /\ Goto(p, "done", [l EXCEPT !.err = "no such file or directory"])
            /\ UNCHANGED objects
       ELSE LET blob == NewBlob(wd[path]) IN
            /\ objects' = StoreObject(objects, BlobObject(blob))
            /\ Goto(p, "UpdateIndex:read", [l EXCEPT !.hash = blob.hash])
    /\ UNCHANGED << exists, wd, refs, HEAD, index, now, ret, treeVars, codecVars >>

\* UpdateIndex: entries, err := fs.GetIndexEntries()
AddRead(p) ==
    /\ pc[p] = "UpdateIndex:read"
    /\ Goto(p, "UpdateIndex:write", [loc[p] EXCEPT !.entries = GetIndexEntries(index)])
    /\ UNCHANGED << repoVars, ret, treeVars, codecVars >>

\* Faulty variant of AddWrite: the index is read again when it is written.
AddWriteFresh(p) ==
    /\ pc[p] = "UpdateIndex:write"
    /\ index' = UpdateIndex(index, loc[p].path, loc[p].hash)
    /\ Goto(p, "done", loc[p])
    /\ UNCHANGED << exists, wd, objects, refs, HEAD, now, ret, treeVars, codecVars >>

\* UpdateIndex: entries[path] = hash; os.WriteFile(indexPath, data, 0644)
AddWrite(p) ==
    /\ pc[p] = "UpdateIndex:write"
    /\ index' = [q \in DOMAIN loc[p].entries \cup { loc[p].path } |->
                    IF q = loc[p].path THEN loc[p].hash ELSE loc[p].entries[q]]
    /\ Goto(p, "done", loc[p])
    /\ UNCHANGED << exists, wd, objects, refs, HEAD, now, ret, treeVars, codecVars >>

\* Commit up to the tree: GetIndexEntries, the emptiness test,
\* BuildTreeFromPaths, StoreObject(tree).
CommitRead(p) ==
    /\ CanBegin(p)
    /\ LET stagedFiles == GetIndexEntries(index)
           l == [NoLocals EXCEPT !.op = "Commit", !.entries = stagedFiles]
       IN IF NothingToCommit(stagedFiles)
          THEN /\ Goto(p, "done", [l EXCEPT !.err = "nothing to commit, working tree clean"])
               /\ UNCHANGED objects
          ELSE /\ objects' = StoreObject(objects, TreeObject(BuildTreeFromPaths(stagedFiles)))
               /\ Goto(p, "GetHeadCommit", l)
    /\ UNCHANGED << exists, wd, refs, HEAD, index, now, ret, treeVars, codecVars >>

\* headCommit, err := r.storage.GetHeadCommit(); parentHash = obj.ID()
CommitParent(p) ==
    /\ pc[p] = "GetHeadCommit"
    /\ Goto(p, "NewCommit", [loc[p] EXCEPT !.parent = ParentOf(GetHeadCommit(HEAD, refs, objects))])
    /\ UNCHANGED << repoVars, ret, treeVars, codecVars >>

\* commit := core.NewCommit(...); r.storage.StoreObject(commit)
CommitStore(p, message) ==
    /\ pc[p] = "NewCommit"
    /\ \E author \in Authors, t \in ClockReadings :
         LET tree == BuildTreeFromPaths(loc[p].entries)
             commit == NewCommit(TreeID(tree), loc[p].parent, message, author, t)
         IN /\ now' = t
            /\ objects' = StoreObject(objects, CommitObject(commit))
            /\ Goto(p, "UpdateRef", [loc[p] EXCEPT !.hash = commit.hash])
    /\ UNCHANGED << exists, wd, refs, HEAD, index, ret, treeVars, codecVars >>

\* Faulty variant of CommitRef: the ref is written only if it still holds the
\* parent that was read.
CommitRefIfUnmoved(p) ==
    /\ pc[p] = "UpdateRef"
    /\ LET head == GetHead(HEAD) IN
       IF head.err # ""
       THEN /\ Goto(p, "done", [loc[p] EXCEPT !.err = head.err])
            /\ UNCHANGED refs
       ELSE IF (IF head.ref \in DOMAIN refs THEN refs[head.ref] ELSE NoHash) # loc[p].parent
       THEN /\ Goto(p, "done", [loc[p] EXCEPT !.err = "reference has moved"])
            /\ UNCHANGED refs
       ELSE /\ refs' = UpdateRef(refs, head.ref, loc[p].hash)
            /\ Goto(p, "ClearIndex", loc[p])
    /\ UNCHANGED << exists, wd, objects, HEAD, index, now, ret, treeVars, codecVars >>

\* head, err := r.storage.GetHead(); r.storage.UpdateRef(head, commit.ID())
CommitRef(p) ==
    /\ pc[p] = "UpdateRef"
    /\ LET head == GetHead(HEAD) IN
       IF head.err # ""
       THEN /\ Goto(p, "done", [loc[p] EXCEPT !.err = head.err])
            /\ UNCHANGED refs
       ELSE /\ refs' = UpdateRef(refs, head.ref, loc[p].hash)
            /\ Goto(p, "ClearIndex", loc[p])
    /\ UNCHANGED << exists, wd, objects, HEAD, index, now, ret, treeVars, codecVars >>

\* Faulty variant of CommitClear: only the entries that were committed are removed.
CommitClearCommitted(p) ==
    /\ pc[p] = "ClearIndex"
    /\ index' = [q \in DOMAIN index \ DOMAIN loc[p].entries |-> index[q]]
    /\ Goto(p, "done", loc[p])
    /\ UNCHANGED << exists, wd, objects, refs, HEAD, now, ret, treeVars, codecVars >>

\* r.storage.ClearIndex(); return commit.ID(), nil
CommitClear(p) ==
    /\ pc[p] = "ClearIndex"
    /\ index' = ClearIndex
    /\ Goto(p, "done", loc[p])
    /\ UNCHANGED << exists, wd, objects, refs, HEAD, now, ret, treeVars, codecVars >>

\* The repository is set up by one invocation at a time; then two
\* invocations, each an Add or a Commit, run at the same time.
NoneBegun == \A p \in Procs : pc[p] = "idle"

NextRace ==
    \/ NoneBegun /\ \E p \in IndexPaths, c \in RaceContents : WriteFile(p, c)
    \/ NoneBegun /\ RepoInit
    \/ NoneBegun /\ \E p \in IndexPaths : Add(p)
    \/ NoneBegun /\ NumCommits(objects) < MaxIndexCommits /\ \E m \in CommitMessages : Commit(m)
    \/ \E p \in Procs, path \in IndexPaths : AddStore(p, path)
    \/ \E p \in Procs : AddRead(p)
    \/ \E p \in Procs : AddWrite(p)
    \/ \E p \in Procs : CommitRead(p)
    \/ \E p \in Procs : CommitParent(p)
    \/ \E p \in Procs, m \in CommitMessages : CommitStore(p, m)
    \/ \E p \in Procs : CommitRef(p)
    \/ \E p \in Procs : CommitClear(p)

SpecRace == Init /\ [][NextRace]_vars

\* ------------------------------------------------- vocabulary of the claims
ErrEmptyCommit == "nothing to commit, working tree clean"

ErrEmptyMessage == "aborting commit due to empty commit message"

ErrNoCommitsYet == "cannot create branch: you must create at least one commit first"

ErrUnknownBranch == "branch does not exist"

ErrPathspecNotFound == "pathspec did not match any file in the index"

\* The step ran Repository.Commit (directly, or through CommitCommand once the
\* message test and Open have passed).
RepoCommitStep ==
    \/ ret'.op = "Commit"
    \/ ret'.op = "CommitCommand" /\ ret'.arg # << "" >> /\ exists

CommitOK == RepoCommitStep /\ ret'.err = ""

\* The branch HEAD names, and the commit hash its ref file holds (NoHash when
\* there is no ref file).
HeadBranch(head) == GetHead(head).ref

RefCommit(rs, name) == IF name \in DOMAIN rs THEN rs[name] ELSE NoHash

\* The commit read back from the store under hash h (GetObject).
StoredCommit(objs, h) == GetObject(objs, h)

IsStoredCommit(objs, h) == StoredCommit(objs, h).err = "" /\ StoredCommit(objs, h).type = CommitType

\* Every working-directory file is staged with its present content and every
\* staged path is a working-directory file: nothing was created, changed or
\* deleted since the Add that staged it.
Untouched(w, idx) ==
    /\ DOMAIN w = DOMAIN idx
    /\ \A p \in DOMAIN w : idx[p] = NewBlob(w[p]).hash

\* ----------------------------------------------------------------- claims

\* C1: after a successful Commit on a working tree untouched since the Adds
\* that staged it, Status reports no Unstaged and no Untracked path.
C1_StatusCleanAfterCommit ==
    [][ (CommitOK /\ Untouched(wd, index))
        => /\ StatusOf(wd', index').Unstaged = {}
           /\ StatusOf(wd', index').Untracked = {} ]_vars

\* C2: a successful Commit started with non-empty index I while HEAD targets
\* branch b leaves a stored commit whose TreeHash is the root hash of
\* BuildTreeFromPaths(I), that root tree stored, ref b at the commit's hash,
\* the index empty, and returns the commit's hash.
C2_CommitPostcondition ==
    [][ CommitOK =>
        LET h == ret'.val[1]
            b == HeadBranch(HEAD)
            rootHash == TreeID(BuildTreeFromPaths(index))
        IN /\ DOMAIN index # {}
           /\ IsStoredCommit(objects', h)
           /\ StoredCommit(objects', h).obj[1].hash = h
           /\ StoredCommit(objects', h).obj[1].data.TreeHash = rootHash
           /\ rootHash \in DOMAIN objects'
           /\ DeserializeObject(objects'[rootHash]).type = TreeType
           /\ b \in DOMAIN refs'
           /\ refs'[b] = h
           /\ DOMAIN index' = {} ]_vars

C2_Witness ==
    /\ ret.op \in { "Commit", "CommitCommand" }
    /\ ret.err = ""
    /\ HeadBranch(HEAD) = "dev"
    /\ RefCommit(refs, "master") # RefCommit(refs, "dev")

\* C3: re-reading the commit a successful Commit stored yields the ParentHash
\* that HEAD's branch held when the call started (empty for an unborn branch)
\* and a timestamp not earlier than the start of the call.
C3_ParentAndTimestamp ==
    [][ CommitOK =>
        LET h == ret'.val[1]
            c == StoredCommit(objects', h)
        IN /\ IsStoredCommit(objects', h)
           /\ c.obj[1].data.ParentHash = RefCommit(refs, HeadBranch(HEAD))
           /\ c.obj[1].data.Timestamp.wall >= now ]_vars

C3_Witness ==
    /\ ret.op \in { "Commit", "CommitCommand" }
    /\ ret.err = ""
    /\ IsStoredCommit(objects, ret.val[1])
    /\ StoredCommit(objects, ret.val[1]).obj[1].data.ParentHash # NoHash
    /\ StoredCommit(objects, ret.val[1]).obj[1].data.Timestamp.wall = MaxTime

\* C4: every hash recorded in the index is the key of a blob in the store.
C4_IndexHashesAreStoredBlobs ==
    \A p \in DOMAIN index :
        /\ index[p] \in DOMAIN objects
        /\ DeserializeObject(objects[index[p]]).type = BlobType

C4_Witness ==
    /\ DOMAIN index # {}
    /\ NumCommits(objects) >= 1
    /\ \E p \in DOMAIN index : p \in DOMAIN wd /\ index[p] # NewBlob(wd[p]).hash

\* C5: HEAD is always a symbolic reference, to a ref that exists and holds a
\* stored commit or, while no commit has been made, to the default branch with
\* no ref file; HEAD is never detached.
C5_HeadAttachedOrUnborn ==
    exists =>
        /\ HasRefPrefix(HEAD)
        /\ HEAD = SymbolicRef(HeadBranch(HEAD))
        /\ \/ /\ HeadBranch(HEAD) \in DOMAIN refs
              /\ IsStoredCommit(objects, refs[HeadBranch(HEAD)])
           \/ /\ HeadBranch(HEAD) = DefaultBranch
              /\ DOMAIN refs = {}
              /\ NumCommits(objects) = 0

C5_Witness ==
    /\ exists
    /\ HEAD = SymbolicRef("dev")
    /\ ret.op = "Checkout"
    /\ ret.err = ""

\* C6: the commit of an existing ref changes only by a successful Commit made
\* while HEAD targets that ref; no other operation (CreateBranch under any
\* name included) changes it.
C6_RefsMoveOnlyByCommit ==
    [][ \A n \in DOMAIN refs :
            /\ n \in DOMAIN refs'
            /\ refs'[n] # refs[n] => (CommitOK /\ HeadBranch(HEAD) = n) ]_vars

\* The length of the parent chain that starts at commit hash h, following
\* ParentHash through commits read from the store; -1 when the walk meets a
\* hash that is no stored commit or a commit for the second time.
RECURSIVE ChainLength(_, _, _)
ChainLength(objs, h, visited) ==
    IF h = NoHash THEN 0
    ELSE IF h \in visited \/ ~IsStoredCommit(objs, h) THEN -1
    ELSE LET rest == ChainLength(objs, StoredCommit(objs, h).obj[1].data.ParentHash,
                                 visited \cup {h})
         IN IF rest = -1 THEN -1 ELSE rest + 1

\* C7: from the commit of any ref, following ParentHash visits only stored
\* commits, none of them twice, and ends at a commit with an empty ParentHash.
C7_CommitGraphAcyclic ==
    \A n \in DOMAIN refs : ChainLength(objects, refs[n], {}) >= 1

C7_Witness ==
    /\ ChainLength(objects, RefCommit(refs, "master"), {}) = 2
    /\ ChainLength(objects, RefCommit(refs, "dev"), {}) = 1

\* C8: Commit on an index with zero entries fails with the "nothing to
\* commit" error and leaves the object store, the refs, HEAD and the index
\* unchanged.
C8_EmptyCommitRejected ==
    [][ (RepoCommitStep /\ DOMAIN index = {})
        => /\ ret'.err = ErrEmptyCommit
           /\ ret'.val = <<>>
           /\ UNCHANGED << objects, refs, HEAD, index >> ]_vars

C8_Witness ==
    /\ ret.op = "Commit"
    /\ ret.err = ErrEmptyCommit
    /\ NumCommits(objects) >= 1
    /\ DOMAIN wd # {}

\* C9: CommitCommand with an empty message returns its error before the
\* repository is opened (also where there is no repository): no object is
\* written, no ref moves, HEAD and the index stay as they are.
C9_EmptyMessageRejected ==
    [][ (ret'.op = "CommitCommand" /\ ret'.arg = << "" >>)
        => /\ ret'.err = ErrEmptyMessage
           /\ UNCHANGED << exists, objects, refs, HEAD, index >> ]_vars

C9_Witness ==
    /\ ret.op = "CommitCommand"
    /\ ret.arg = << "" >>
    /\ ret.err = ErrEmptyMessage
    /\ exists
    /\ DOMAIN index # {}

\* C10: CreateBranch while HEAD's branch has no commit fails with the "no
\* commits yet" error, creates no ref and leaves HEAD, the index and the
\* object store unchanged.
C10_BranchNeedsCommit ==
    [][ (ret'.op = "CreateBranch" /\ HeadBranch(HEAD) \notin DOMAIN refs)
        => /\ ret'.err = ErrNoCommitsYet
           /\ UNCHANGED << refs, HEAD, index, objects >> ]_vars

C10_Witness ==
    /\ ret.op = "CreateBranch"
    /\ ret.err = ErrNoCommitsYet
    /\ DOMAIN index # {}
    /\ DOMAIN refs = {}

C12_CheckoutUnknownBranch ==
    [][ (ret'.op = "Checkout" /\ ret'.arg[1] \notin DOMAIN refs)
        => /\ ret'.err = ErrUnknownBranch
           /\ UNCHANGED HEAD
           /\ GetCurrentBranch(HEAD') = GetCurrentBranch(HEAD) ]_vars

C12_Witness ==
    /\ ret.op = "Checkout"
    /\ ret.arg = << "dev" >>
    /\ ret.err = ErrUnknownBranch
    /\ DOMAIN refs = { "master" }
    /\ GetCurrentBranch(HEAD) = [err |-> "", ref |-> "master"]

\* C13: a successful Checkout(b) makes HEAD the symbolic reference
\* "ref: refs/heads/b" and changes nothing else: refs, index, object store
\* and working directory stay as they were.
C13_CheckoutFrame ==
    [][ (ret'.op = "Checkout" /\ ret'.err = "")
        => /\ ret'.arg[1] \in DOMAIN refs
           /\ HEAD' = SymbolicRef(ret'.arg[1])
           /\ UNCHANGED << refs, index, objects, wd >> ]_vars

C13_Witness ==
    /\ ret.op = "Checkout"
    /\ ret.arg = << "dev" >>
    /\ ret.err = ""
    /\ HEAD = SymbolicRef("dev")
    /\ RefCommit(refs, "master") # RefCommit(refs, "dev")
    /\ DOMAIN index # {}
    /\ DOMAIN wd # {}

\* C14: Unstage of a path that is no key of the index fails with the
\* "pathspec did not match" error and leaves the stored index as it was.
C14_UnstageUnknownPath ==
    [][ (ret'.op = "Unstage" /\ ret'.arg[1] \notin DOMAIN index)
        => /\ ret'.err = ErrPathspecNotFound
           /\ UNCHANGED index ]_vars

C14_Witness ==
    /\ ret.op = "Unstage"
    /\ ret.arg = << <<"f">> >>
    /\ ret.err = ErrPathspecNotFound
    /\ DOMAIN index = { <<"d", "g">> }
    /\ <<"f">> \in DOMAIN wd

\* C15: a successful Unstage(p) removes exactly the entry of p from the
\* index: every other path keeps its hash, and no ref, HEAD value or stored
\* object changes.
C15_UnstageRemovesOneEntry ==
    [][ (ret'.op = "Unstage" /\ ret'.err = "") =>
        LET p == ret'.arg[1]
        IN /\ p \in DOMAIN index
           /\ DOMAIN index' = DOMAIN index \ {p}
           /\ \A q \in DOMAIN index' : index'[q] = index[q]
           /\ UNCHANGED << refs, HEAD, objects >> ]_vars

C15_Witness ==
    /\ ret.op = "Unstage"
    /\ ret.arg = << <<"d", "g">> >>
    /\ ret.err = ""
    /\ DOMAIN index = { <<"f">> }
    /\ DOMAIN refs # {}

\* C16: a successful Add of a single file f stores the blob of f's present
\* content and sets index[f] to that blob's hash (inserting or overwriting);
\* every other index entry, every ref and HEAD keep their values; and an Add
\* of the same unchanged file right after a successful one leaves the index
\* as the first Add left it.
C16_AddFileUpsert ==
    [][ (ret'.op = "Add" /\ ret'.err = "" /\ ret'.arg[1] \in DOMAIN wd) =>
        LET f == ret'.arg[1]
            blob == NewBlob(wd[f])
            got == GetObject(objects', blob.hash)
        IN /\ got.err = "" /\ got.type = BlobType
           /\ got.obj[1].content = wd[f]
           /\ DOMAIN index' = DOMAIN index \cup {f}
           /\ index'[f] = blob.hash
           /\ \A q \in DOMAIN index \ {f} : index'[q] = index[q]
           /\ UNCHANGED << refs, HEAD >>
           /\ (ret.op = "Add" /\ ret.err = "" /\ ret.arg = ret'.arg) => index' = index ]_vars

C16_Witness ==
    /\ ret.op = "Add"
    /\ ret.arg = << <<"f">> >>
    /\ ret.err = ""
    /\ DOMAIN index = IndexPaths
    /\ DOMAIN wd = IndexPaths
    /\ index[<<"d", "g">>] # NewBlob(wd[<<"d", "g">>]).hash
    /\ index[<<"f">>] # index[<<"d", "g">>]
    /\ DOMAIN refs # {}

\* C17: Init on a directory without a repository yields the unborn master
\* state: HEAD is "ref: refs/heads/master", no ref exists, the index is
\* empty, GetCurrentBranch answers master, and GetHeadCommit answers "no
\* commit" without an error.
C17_InitUnbornMaster ==
    [][ (ret'.op = "Init" /\ ~exists)
        => /\ ret'.err = ""
           /\ exists'
           /\ HEAD' = << "ref: ", "refs/heads/", "master" >>
           /\ DOMAIN refs' = {}
           /\ DOMAIN GetIndexEntries(index') = {}
           /\ GetCurrentBranch(HEAD') = [err |-> "", ref |-> "master"]
           /\ GetHeadCommit(HEAD', refs', objects') = [err |-> "", commit |-> <<>>] ]_vars

C17_Witness ==
    /\ ret.op = "Init"
    /\ ret.err = ""
    /\ exists
    /\ objects = EmptyMap
    /\ DOMAIN wd # {}

\* C18: Init on a directory that already holds a repository returns no
\* error and leaves every stored object and every ref as it was.
C18_ReinitKeepsObjectsAndRefs ==
    [][ (ret'.op = "Init" /\ exists)
        => /\ ret'.err = ""
           /\ UNCHANGED << objects, refs >> ]_vars

C18_Witness ==
    /\ ret.op = "Init"
    /\ ret.err = ""
    /\ DOMAIN refs = { "master", "dev" }
    /\ refs["master"] # refs["dev"]
    /\ IsStoredCommit(objects, refs["dev"])

\* The orders in which the elements of sequence s can be enumerated.
Orderings(s) ==
    { [i \in 1..Len(s) |-> s[f[i]]] : f \in Permutations(1..Len(s)) }

\* The tree obtained by adding the entries of sequence s one after another.
RECURSIVE TreeOfEntries(_)
TreeOfEntries(s) ==
    IF s = <<>> THEN NewTree
    ELSE LET e == s[Len(s)]
         IN AddEntry(TreeOfEntries(SubSeq(s, 1, Len(s) - 1)), e.Name, e.Hash, e.Mode)

\* The entries of s are pairwise different as {name, hash, kind} triples.
IsEntrySet(s) == \A i, j \in 1..Len(s) : s[i] = s[j] => i = j

DistinctNames(s) == \A i, j \in 1..Len(s) : s[i].Name = s[j].Name => i = j

\* C19: for every set of tree entries, entries that share a name included,
\* the tree built by adding the entries in any order has the same hash.
C19_TreeHashOrderIndependent ==
    IsEntrySet(memTree.entries) =>
        \A s \in Orderings(memTree.entries) :
            TreeID(TreeOfEntries(s)) = TreeID(memTree)

\* With pairwise different names the sort in GetEntries fixes the order.
TreeHashOrderIndependentDistinctNames ==
    DistinctNames(memTree.entries) =>
        \A s \in Orderings(memTree.entries) :
            TreeID(TreeOfEntries(s)) = TreeID(memTree)

\* The keys of m are cleaned paths, as filepath.Rel yields them.
CleanPaths(m) == \A p \in DOMAIN m : FilepathClean(p) = p

\* C20: for every path -> hash map, all invocations of BuildTreeFromPaths
\* on the map yield the same root hash, whatever order the map's entries
\* and the directory groups are iterated in.
C20_BuildTreeDeterministic == Cardinality(roots) <= 1

\* On maps whose keys are cleaned paths the root hash is the same under
\* every iteration.
BuildTreeCleanPathsDeterministic == CleanPaths(pathMap) => Cardinality(roots) <= 1

\* C21: for every byte content C (empty content and content with zero
\* bytes included) a second NewBlob(C) has the hash of the first, and
\* DeserializeObject of the serialized blob returns type blob and exactly C.
C21_BlobRoundTrip ==
    memBlob # <<>> =>
        /\ NewBlob(memBlob[1].content).hash = memBlob[1].hash
        /\ memParsed # <<>> =>
              /\ memParsed[1].err = ""
              /\ memParsed[1].type = ObjectTypeBytes(BlobType)
              /\ memParsed[1].data = memBlob[1].content

C21_Witness ==
    /\ memBlob # <<>>
    /\ memParsed # <<>>
    /\ memParsed[1].err = ""
    /\ memParsed[1].data = TenBytes

\* The length a byte string declares: the decimal number that follows the
\* type word in the bytes before the first zero byte; -1 when there is none.
DeclaredLength(raw) ==
    LET scanned == Sscanf(SubSeq(raw, 1, NullIndex(raw) - 1))
    IN IF NullIndex(raw) = 0 \/ scanned.err # "" THEN -1 ELSE scanned.size

\* C22: DeserializeObject returns an error, and neither type nor payload,
\* for every byte string without a zero byte and for every byte string
\* whose declared length differs from the number of bytes after its first
\* zero byte.
C22_DeserializeRejects ==
    (/\ memParsed # <<>>
     /\ \/ \A i \in 1..Len(memRaw) : memRaw[i] # 0
        \/ DeclaredLength(memRaw) # Len(memRaw) - NullIndex(memRaw))
    => /\ memParsed[1].err # ""
       /\ memParsed[1].type = <<>>
       /\ memParsed[1].data = <<>>

C22_Witness ==
    /\ memParsed # <<>>
    /\ memRaw = << 98, 32, 49, 0 >>
    /\ memParsed[1].err = "corrupt object: size mismatch"

\* The keys of the store that hold a blob.
BlobKeys(objs) == { h \in DOMAIN objs : DeserializeObject(objs[h]).type = BlobType }

\* C23: the object store is content-addressed and append-only: storing an
\* object whose hash is already a key leaves the store as it was, Adds of
\* files with identical content yield one blob key that their index entries
\* share, and no operation removes a key or changes the bytes under it.
C23_StoreAppendOnly ==
    [][ /\ \A h \in DOMAIN objects : h \in DOMAIN objects' /\ objects'[h] = objects[h]
        /\ (ret'.op = "Add" /\ ret'.err = "" /\ ret'.arg[1] \in DOMAIN wd) =>
              LET f == ret'.arg[1]
                  blob == NewBlob(wd[f])
              IN /\ HasObject(objects, blob.hash) => objects' = objects
                 /\ \A q \in DOMAIN index' :
                        (q \in DOMAIN wd /\ wd[q] = wd[f] /\ index'[q] = NewBlob(wd[q]).hash)
                        => index'[q] = index'[f]
                 /\ Cardinality({ h \in BlobKeys(objects') :
                                    GetObject(objects', h).obj[1].content = wd[f] }) = 1 ]_vars

C23_Witness ==
    /\ ret.op = "Add"
    /\ ret.err = ""
    /\ DOMAIN index = IndexPaths
    /\ index[<<"f">>] = index[<<"d", "g">>]
    /\ Cardinality(BlobKeys(objects)) = 1
    /\ NumCommits(objects) = 1

\* Every hash an operation can ask the store for: the hashes of the blobs
\* of all contents, next to the keys present.
KnownHashes == DOMAIN objects \cup { NewBlob(c).hash : c \in Contents }

\* C24: for every object of the three kinds that StoreObject wrote,
\* HasObject is true and GetObject succeeds with an object of the same kind
\* whose ID is the key; for a hash never stored HasObject is false and
\* GetObject fails.
C24_StoredObjectsReadable ==
    \A h \in KnownHashes :
        IF h \in DOMAIN objects
        THEN /\ HasObject(objects, h)
             /\ GetObject(objects, h).err = ""
             /\ GetObject(objects, h).type = DeserializeObject(objects[h]).type
             /\ GetObject(objects, h).obj[1].hash = h
        ELSE /\ ~HasObject(objects, h)
             /\ GetObject(objects, h).err # ""

\* C25: for every working-directory file set W and index X, Status returns
\* Staged = the keys of X, Untracked = the files of W that are no keys of X,
\* Unstaged = the files of W that are keys of X with a content hash other
\* than X's; so Untracked and Staged are disjoint and Unstaged is a subset
\* of Staged.
C25_StatusSets ==
    [][ (ret'.op = "Status" /\ ret'.err = "") =>
        LET st == ret'.val[1]
        IN /\ st.Staged = DOMAIN index
           /\ st.Untracked = DOMAIN wd \ DOMAIN index
           /\ st.Unstaged = { f \in DOMAIN wd \cap DOMAIN index :
                                 CalculateHash(SerializeObject(BlobType, wd[f])) # index[f] }
           /\ st.Untracked \cap st.Staged = {}
           /\ st.Unstaged \subseteq st.Staged
           /\ UNCHANGED << wd, index >> ]_vars

C25_Witness ==
    /\ ret.op = "Status"
    /\ ret.err = ""
    /\ ret.val[1].Staged = IndexPaths
    /\ ret.val[1].Unstaged = { <<"f">> }
    /\ DOMAIN wd = { <<"f">> }

\* C29: the restore command, invoked for a file without --staged, restores
\* the file's working-directory content from a previous commit and returns
\* success.
C29_RestoreFromCommit ==
    [][ (/\ ret'.op = "RestoreCommand"
         /\ ret'.arg[2] = FALSE
         /\ Len(ret'.arg[1]) = 1
         /\ exists
         /\ NumCommits(objects) >= 1)
        => /\ ret'.err = ""
           /\ ret'.arg[1][1] \in DOMAIN wd' ]_vars

\* C26: if Commit returns an error because one of its steps failed (reading
\* the index, storing the tree, storing the commit, reading HEAD, updating
\* the ref, clearing the index), every ref, HEAD and the index have the
\* values they had before the call; only objects may have been added.
C26_FailedCommitKeepsState ==
    [][ (ret'.op = "Commit" /\ ret'.err = ErrIO)
        => /\ UNCHANGED << refs, HEAD, index >>
           /\ \A h \in DOMAIN objects : h \in DOMAIN objects' /\ objects'[h] = objects[h] ]_vars

\* A failed Commit leaves HEAD and the index as they were, and either every
\* ref as it was or HEAD's ref at a commit it has just stored.
FailedCommitRefOrNothing ==
    [][ (ret'.op = "Commit" /\ ret'.err = ErrIO)
        => /\ UNCHANGED << HEAD, index >>
           /\ \/ UNCHANGED refs
              \/ /\ refs' = UpdateRef(refs, HeadBranch(HEAD), refs'[HeadBranch(HEAD)])
                 /\ IsStoredCommit(objects', refs'[HeadBranch(HEAD)]) ]_vars

\* An invocation p has returned from operation op without error.
Succeeded(p, op) == pc[p] = "done" /\ loc[p].op = op /\ loc[p].err = ""

\* C27: concurrent invocations are not safe on the index.  UpdateIndex is a
\* read of the index followed by a write: the write stores the entries that
\* were read, with the invocation's own path set to its blob, whatever the
\* index holds by then.  So an entry that another Add wrote between the read
\* and the write is gone, although both Adds return success.
C27_UpdateIndexReadThenWrite ==
    [][\A p \in Procs :
          (pc[p] = "UpdateIndex:write" /\ pc'[p] = "done")
              => /\ loc'[p].err = ""
                 /\ DOMAIN index' = DOMAIN loc[p].entries \cup { loc[p].path }
                 /\ index'[loc[p].path] = loc[p].hash
                 /\ \A q \in DOMAIN loc[p].entries \ { loc[p].path } :
                        index'[q] = loc[p].entries[q]]_vars

\* Two Adds on two distinct files have both returned success and the index
\* holds only one of the two paths.
C27_Witness ==
    /\ Succeeded(1, "Add") /\ Succeeded(2, "Add")
    /\ loc[1].path # loc[2].path
    /\ loc[1].path \in DOMAIN wd /\ loc[2].path \in DOMAIN wd
    /\ Cardinality(DOMAIN index) = 1
    /\ DOMAIN index \subseteq { loc[1].path, loc[2].path }

\* The commits reached from hash h by following ParentHash, at most n of them.
RECURSIVE Ancestors(_, _, _)
Ancestors(objs, h, n) ==
    IF h = NoHash \/ n = 0 \/ ~IsStoredCommit(objs, h) THEN {}
    ELSE {h} \cup Ancestors(objs, StoredCommit(objs, h).obj[1].data.ParentHash, n - 1)

ReachableFromRefs(objs, rs) ==
    UNION { Ancestors(objs, rs[b], Cardinality(DOMAIN objs)) : b \in DOMAIN rs }

RecordedParent(objs, h) == StoredCommit(objs, h).obj[1].data.ParentHash

\* C28: concurrent invocations are not safe on ref files.  Commit writes the
\* branch ref without looking at what it holds: after the write the ref is
\* the invocation's commit, whose recorded parent is the commit that was read
\* from the ref before, although another Commit may have moved the ref since.
\* So two Commits can both succeed on one parent and one of them is left
\* reachable from no ref.
C28_UpdateRefOverwrites ==
    [][\A p \in Procs :
          (pc[p] = "UpdateRef" /\ pc'[p] # "UpdateRef" /\ HasRefPrefix(HEAD))
              => /\ pc'[p] = "ClearIndex"
                 /\ refs' = UpdateRef(refs, HeadBranch(HEAD), loc[p].hash)
                 /\ IsStoredCommit(objects, loc[p].hash)
                 /\ RecordedParent(objects, loc[p].hash) = loc[p].parent]_vars

\* Two Commits on one branch have both returned success with different commit
\* hashes, both commits record the same parent, the branch ref is one of them
\* and the other is reachable from no ref.
C28_Witness ==
    /\ Succeeded(1, "Commit") /\ Succeeded(2, "Commit")
    /\ loc[1].hash # loc[2].hash
    /\ IsStoredCommit(objects, loc[1].hash) /\ IsStoredCommit(objects, loc[2].hash)
    /\ RecordedParent(objects, loc[1].hash) = RecordedParent(objects, loc[2].hash)
    /\ IsStoredCommit(objects, RecordedParent(objects, loc[1].hash))
    /\ DOMAIN refs = { HeadBranch(HEAD) }
    /\ refs[HeadBranch(HEAD)] \in { loc[1].hash, loc[2].hash }
    /\ \E p \in Procs : loc[p].hash \notin ReachableFromRefs(objects, refs)

\* Path q is in the tree of the commit that invocation c made: the commit
\* stored under c's hash has the tree built from the entries c read, and q is
\* one of them.
InNewCommitTree(c, q) ==
    /\ IsStoredCommit(objects, loc[c].hash)
    /\ StoredCommit(objects, loc[c].hash).obj[1].data.TreeHash
           = TreeID(BuildTreeFromPaths(loc[c].entries))
    /\ q \in DOMAIN loc[c].entries

\* C30 as stated: once an Add and a Commit that ran at the same time have
\* both returned success, the path added is in the tree of the new commit or
\* still in the index.
C30_NoStagedEntryLost ==
    \A a \in Procs, c \in Procs :
        (Succeeded(a, "Add") /\ Succeeded(c, "Commit"))
            => InNewCommitTree(c, loc[a].path) \/ loc[a].path \in DOMAIN index

\* C30 as amended: Commit's tree holds the paths that were in the index when
\* Commit read it, and Commit's ClearIndex empties the index whatever it holds
\* by then.  A path whose Add returned success before Commit read the index
\* is among the entries of the new commit; a path whose Add writes the index
\* after Commit has returned is in the index; a path written between the read
\* and the ClearIndex is in neither.
C30_CommitTakesWhatItRead ==
    [][\A a \in Procs, c \in Procs :
          /\ (Succeeded(a, "Add") /\ pc[c] = "idle" /\ pc'[c] = "GetHeadCommit")
                 => /\ loc[a].path \in DOMAIN loc'[c].entries
                    /\ loc'[c].entries = index
          /\ (pc[c] = "ClearIndex" /\ pc'[c] = "done")
                 => /\ index' = EmptyMap
                    /\ loc'[c].err = ""
                    /\ loc'[c] = loc[c] /\ objects' = objects
                    /\ \A q \in DOMAIN loc[c].entries : InNewCommitTree(c, q)
          /\ (Succeeded(c, "Commit") /\ pc[a] = "UpdateIndex:write" /\ pc'[a] = "done")
                 => /\ Succeeded(a, "Add")'
                    /\ loc[a].path \in DOMAIN index']_vars

\* An Add and a Commit have both returned success and the path added is
\* neither among the entries of the new commit nor in the index.
C30_Witness ==
    \E a \in Procs, c \in Procs :
        /\ Succeeded(a, "Add") /\ Succeeded(c, "Commit")
        /\ loc[a].path \in DOMAIN wd
        /\ IsStoredCommit(objects, loc[c].hash)
        /\ refs[HeadBranch(HEAD)] = loc[c].hash
        /\ loc[a].path \notin DOMAIN loc[c].entries
        /\ loc[a].path \notin DOMAIN index

\* The object stored under hash h is of type objType.
HasObjectOfType(objs, h, objType) == HasObject(objs, h) /\ DeserializeObject(objs[h]).type = objType

\* C31: in every reachable state, the states an interrupted Commit leaves
\* behind included, every ref holds the hash of a commit present in the
\* store, and that commit's TreeHash is the key of a tree present in the store.
C31_RefsNameStoredCommits ==
    \A n \in DOMAIN refs :
        /\ HasObjectOfType(objects, refs[n], CommitType)
        /\ IsStoredCommit(objects, refs[n])
        /\ HasObjectOfType(objects, StoredCommit(objects, refs[n]).obj[1].data.TreeHash, TreeType)

\* A Commit was interrupted after it wrote the ref and before it cleared the
\* index.
C31_Witness ==
    /\ ret.op = "Commit" /\ ret.err = ErrIO
    /\ DOMAIN refs # {}
    /\ DOMAIN index # {}
    /\ NumCommits(objects) >= 1

\* The entries of the tree whose hash is treeHash.
TreeEntriesOf(treeHash) == treeHash[2][3]

\* Descending from the tree treeHash through directory entries named by the
\* directory components of path reaches a file entry (base name, hash).
RECURSIVE ReachesFile(_, _, _)
ReachesFile(treeHash, path, hash) ==
    LET entries == TreeEntriesOf(treeHash) IN
    IF Len(path) = 1
    THEN \E i \in 1..Len(entries) :
             entries[i] = [Name |-> path[1], Hash |-> hash, Mode |-> ModeFile]
    ELSE \E i \in 1..Len(entries) :
             /\ entries[i].Name = path[1]
             /\ entries[i].Mode = ModeDir
             /\ ReachesFile(entries[i].Hash, Tail(path), hash)

\* Every entry of the tree treeHash, which stands at directory prefix, and
\* of the trees below it corresponds to a path of m: a file entry is a path
\* of m with its hash, a directory entry is a directory of a path of m.
RECURSIVE EntriesCorrespond(_, _, _)
EntriesCorrespond(treeHash, prefix, m) ==
    LET entries == TreeEntriesOf(treeHash) IN
    \A i \in 1..Len(entries) :
        LET q == Append(prefix, entries[i].Name) IN
        IF entries[i].Mode = ModeFile
        THEN q \in DOMAIN m /\ m[q] = entries[i].Hash
        ELSE /\ entries[i].Name # ""
             /\ \E p \in DOMAIN m : Len(p) > Len(q) /\ SubSeq(p, 1, Len(q)) = q
             /\ EntriesCorrespond(entries[i].Hash, q, m)

Represents(rootHash, m) ==
    /\ \A p \in DOMAIN m : ReachesFile(rootHash, p, m[p])
    /\ EntriesCorrespond(rootHash, <<>>, m)

\* C32: for every path -> hash map M (of cleaned paths), the hierarchy that
\* BuildTreeFromPaths computes represents exactly M: every path of M is
\* reached from the root through its directories, also when an intermediate
\* directory holds no file of its own, and no entry (in particular none
\* with an empty name) corresponds to no path of M.
C32_TreeRepresentsMap ==
    CleanPaths(pathMap) => \A r \in roots : Represents(r, pathMap)

\* The hashes of the stored trees, and the entries of a stored tree.
StoredTrees(objs) == { h \in DOMAIN objs : DeserializeObject(objs[h]).type = TreeType }

StoredEntries(objs, h) == DeserializeObject(objs[h]).data

\* Every hash that an entry of a stored tree names is the key of a stored
\* object of the entry's kind: a tree for a directory, a blob for a file.
ClosedUnderReferences(objs) ==
    \A h \in StoredTrees(objs) :
        \A i \in 1..Len(StoredEntries(objs, h)) :
            LET e == StoredEntries(objs, h)[i] IN
            HasObjectOfType(objs, e.Hash, IF e.Mode = ModeDir THEN TreeType ELSE BlobType)

\* C33: after every successful Commit the object store is closed under
\* references: the commit's root tree is stored, and so are every
\* subdirectory tree named by a directory entry of a stored tree and every
\* blob named by a file entry.
C33_StoreClosedAfterCommit ==
    [][CommitOK
        => /\ HasObjectOfType(objects', StoredCommit(objects', ret'.val[1]).obj[1].data.TreeHash, TreeType)
           /\ ClosedUnderReferences(objects')]_vars

\* The hashes of the stored commits.
StoredCommits(objs) == { h \in DOMAIN objs : DeserializeObject(objs[h]).type = CommitType }

\* C34: if resolving the HEAD commit fails with an error during Commit (the
\* branch's ref names a commit object that is missing), Commit returns an
\* error, stores no new commit and leaves every ref as it was.
C34_CommitFailsOnBrokenHead ==
    [][(ret'.op = "Commit" /\ GetHeadCommit(HEAD, refs, objects).err # "")
        => /\ ret'.err # ""
           /\ refs' = refs
           /\ StoredCommits(objects') \subseteq StoredCommits(objects)]_vars

\* Repository.Commit is invoked with the empty message on a non-empty index.
CommitEmptyMessageStep == ret'.op = "Commit" /\ ret'.arg = << "" >> /\ DOMAIN index # {}

\* C35 as stated: Repository.Commit invoked with an empty message and a
\* non-empty index fails before storing any object, moving any ref or
\* clearing the index.
C35_RepositoryCommitRejectsEmptyMessage ==
    [][CommitEmptyMessageStep
        => /\ ret'.err # ""
           /\ UNCHANGED << objects, refs, index >>]_vars

\* C35 as amended: Repository.Commit does not test the message.  Invoked
\* with an empty message and a non-empty index it succeeds: it stores a
\* commit whose message is empty, moves HEAD's branch to it and clears the
\* index.  The empty message is rejected by CommitCommand alone.
C35_RepositoryCommitTakesEmptyMessage ==
    [][/\ CommitEmptyMessageStep
          => /\ ret'.err = ""
             /\ IsStoredCommit(objects', ret'.val[1])
             /\ StoredCommit(objects', ret'.val[1]).obj[1].data.Message = ""
             /\ refs' = UpdateRef(refs, HeadBranch(HEAD), ret'.val[1])
             /\ index' = EmptyMap
       /\ (ret'.op = "CommitCommand" /\ ret'.arg = << "" >>)
          => /\ ret'.err = ErrEmptyMessage
             /\ UNCHANGED << objects, refs, index >>]_vars

\* A commit with an empty message is the commit of HEAD's branch.
C35_Witness ==
    /\ ret.op = "Commit" /\ ret.arg = << "" >> /\ ret.err = ""
    /\ refs[HeadBranch(HEAD)] = ret.val[1]
    /\ StoredCommit(objects, ret.val[1]).obj[1].data.Message = ""
    /\ DOMAIN index = {}

\* C36: Init on an already initialised repository preserves the current
\* branch and the staging area: HEAD names the same branch and the index
\* holds the same entries after the call as before it.
C36_ReinitKeepsBranchAndIndex ==
    [][(ret'.op = "Init" /\ exists)
        => /\ HeadBranch(HEAD') = HeadBranch(HEAD)
           /\ index' = index]_vars

\* The paths of the files reached from the root tree treeHash.
FilePathsOf(treeHash) ==
    { q \in AllPaths : \E b \in EntryHashes : ReachesFile(treeHash, q, b) }

CommitTreeHash(objs, h) == StoredCommit(objs, h).obj[1].data.TreeHash

\* C37: the tree of each commit is derived from the index alone.  Only Add
\* puts a path into the index and a successful Commit leaves it empty, so
\* the files of a commit's tree are the paths added (and not unstaged) since
\* the previous commit; a path of the parent commit's tree that was not
\* added again is absent from the child commit's tree.
C37_TreeFromIndexAlone ==
    [][/\ (DOMAIN index' \subseteq DOMAIN index) \/ (ret'.op = "Add" /\ ret'.err = "")
       /\ CommitOK
          => /\ index' = EmptyMap
             /\ CommitTreeHash(objects', ret'.val[1]) = TreeID(BuildTreeFromPaths(index))
             /\ FilePathsOf(CommitTreeHash(objects', ret'.val[1])) = DOMAIN index
             /\ RecordedParent(objects', ret'.val[1]) # NoHash
                   => \A q \in FilePathsOf(CommitTreeHash(objects', RecordedParent(objects', ret'.val[1]))) :
                          q \notin DOMAIN index
                              => q \notin FilePathsOf(CommitTreeHash(objects', ret'.val[1]))]_vars

\* The tree of the parent commit holds f alone and the tree of its child,
\* the commit of HEAD's branch, holds d/g alone.
C37_Witness ==
    /\ ret.op = "Commit" /\ ret.err = ""
    /\ refs[HeadBranch(HEAD)] = ret.val[1]
    /\ RecordedParent(objects, ret.val[1]) # NoHash
    /\ FilePathsOf(CommitTreeHash(objects, RecordedParent(objects, ret.val[1]))) = { << "f" >> }
    /\ FilePathsOf(CommitTreeHash(objects, ret.val[1])) = { << "d", "g" >> }
    /\ DOMAIN wd = IndexPaths

\* The position of the first argument at which the loop of a command stops,
\* Len(args) + 1 when no argument fails.  add fails on a path that is neither
\* a file nor a directory of the working directory w; restore --staged fails
\* on a path that is not in the index idx or was unstaged by an earlier
\* argument.
FirstOf(positions, args) ==
    IF positions = {} THEN Len(args) + 1
    ELSE CHOOSE k \in positions : \A i \in positions : k <= i

AddStops(w, args) ==
    FirstOf({ i \in 1..Len(args) : args[i] \notin DOMAIN w /\ ~IsDir(w, args[i]) }, args)

RestoreStops(idx, args) ==
    FirstOf({ i \in 1..Len(args) :
                 args[i] \notin DOMAIN idx \/ \E j \in 1..(i - 1) : args[j] = args[i] }, args)

\* The working-directory files that the arguments before position k name,
\* themselves or through a directory above them.
FilesNamedBefore(w, args, k) ==
    { q \in DOMAIN w : \E i \in 1..(k - 1) :
          Len(args[i]) <= Len(q) /\ SubSeq(q, 1, Len(args[i])) = args[i] }

\* C38: AddCommand and RestoreCommand(--staged) given several paths process
\* them in argument order and stop at the first path that fails: the paths
\* before it are staged (unstaged), the failing path and the paths after it
\* change nothing in the index, and an error is returned; with an empty
\* argument list both fail without any change.
C38_CommandsStopAtFirstFailure ==
    [][/\ (ret'.op = "AddCommand" /\ exists)
          => LET args == ret'.arg[1]
                 k == AddStops(wd, args)
                 staged == FilesNamedBefore(wd, args, k)
             IN /\ (ret'.err = "") <=> (Len(args) > 0 /\ k = Len(args) + 1)
                /\ index' = [q \in DOMAIN index \cup staged |->
                                IF q \in staged THEN NewBlob(wd[q]).hash ELSE index[q]]
       /\ (ret'.op = "RestoreCommand" /\ ret'.arg[2] /\ exists)
          => LET args == ret'.arg[1]
                 k == RestoreStops(index, args)
                 unstaged == { args[i] : i \in 1..(k - 1) }
             IN /\ (ret'.err = "") <=> (Len(args) > 0 /\ k = Len(args) + 1)
                /\ index' = [q \in DOMAIN index \ unstaged |-> index[q]]
       /\ (ret'.op \in { "AddCommand", "RestoreCommand" } /\ Len(ret'.arg[1]) = 0)
          => /\ ret'.err # ""
             /\ UNCHANGED << objects, refs, HEAD, index >>]_vars

\* AddCommand given f and then d/g, of which only f exists, has returned an
\* error and f is staged.
C38_Witness ==
    /\ ret.op = "AddCommand"
    /\ ret.arg[1] = << << "f" >>, << "d", "g" >> >>
    /\ ret.err # ""
    /\ DOMAIN wd = { << "f" >> }
    /\ DOMAIN index = { << "f" >> }

\* C39: Status, ListBranches, GetCurrentBranch and GetHeadCommit are
\* read-only: a call of any of them leaves the object store, every ref, HEAD
\* and the index unchanged; Status stores no blob for the files it hashes.
C39_QueriesReadOnly ==
    [][ret'.op \in { "Status", "ListBranches", "GetCurrentBranch", "GetHeadCommit" }
        => UNCHANGED << objects, refs, HEAD, index >>]_vars

\* Status has reported a staged file as modified, and the blob of the file's
\* present content is not in the store.
C39_Witness ==
    /\ ret.op = "Status"
    /\ ret.val[1].Unstaged # {}
    /\ \A f \in ret.val[1].Unstaged : ~HasObject(objects, NewBlob(wd[f]).hash)
    /\ DOMAIN refs # {}

====
